---- MODULE Spec2Model ----
(***************************************************************************)
(* Model of the persistent storage layer of joscaz-vector-db               *)
(* (src/src/storage.c): one collection directory holding collection.meta,  *)
(* three append-only segment files and a write-ahead log, driven by one    *)
(* single-threaded caller that may be killed between any two system calls. *)
(*                                                                         *)
(* Files are byte sequences.  Paths are not modelled: the model has one    *)
(* (base_dir, name) pair, so build_collection_path / build_file_path are   *)
(* the fixed field names of the record fs.                                 *)
(***************************************************************************)
EXTENDS Integers, Sequences, FiniteSets, TLC

(* ----------------------------------------------------------------------- *)
(* Program constants                                                       *)
(* ----------------------------------------------------------------------- *)
VDB_OK == 0
VDB_ERROR_INVALID_ARGUMENT == -1
VDB_ERROR_OUT_OF_MEMORY == -2
VDB_ERROR_IO == -3
VDB_ERROR_NOT_FOUND == -4
VDB_ERROR_ALREADY_EXISTS == -5
VDB_ERROR_CORRUPTED == -6
VDB_ERROR_DIMENSION_MISMATCH == -7

VDB_METRIC_COSINE == 0
VDB_METRIC_EUCLIDEAN == 1

VDB_ID_MAX_LEN == 64
VDB_COLLECTION_NAME_MAX_LEN == 64
VDB_COLLECTION_MAX_DIM == 65536
WAL_RECORD_APPEND == 1

\* sizeof(float), sizeof(uint32_t) and sizeof(wal_record_header_t) (packed:
\* one uint8_t and three uint32_t).
SizeofFloat == 4
SizeofU32 == 4
SizeofWalHeader == 13

\* A null pointer to a struct or to a pointer, and a pointer that is not
\* null and whose target the model does not need.
NULL == [null |-> TRUE]
NonNull == [null |-> FALSE]

\* A char pointer is the chars it points to (each in 0..255), or the null
\* pointer, which is this sequence that no chars make.
NULLSTR == << -1 >>

(* ----------------------------------------------------------------------- *)
(* Bounds of the model                                                     *)
(* ----------------------------------------------------------------------- *)
\* vdb_storage_create, vdb_storage_open and vdb_storage_append calls made
\* in one behaviour.
MaxCalls == 4
\* Failing system calls and process kills in one behaviour.
MaxMishaps == 1

(* ----------------------------------------------------------------------- *)
(* Bytes, strings, encodings                                               *)
(* ----------------------------------------------------------------------- *)
\* A uint32_t as it lies in memory on the little-endian hosts the code's raw
\* write(fd, &x, sizeof x) calls run on.
U32LE(n) ==
    << n % 256, (n \div 256) % 256, (n \div 65536) % 256, (n \div 16777216) % 256 >>

\* The uint32_t held by four bytes at offset off (1-based) of b.
ReadU32LE(b, off) ==
    b[off] + 256 * b[off + 1] + 65536 * b[off + 2] + 16777216 * b[off + 3]

\* n zero bytes (memset(.., 0, n), strncpy's padding).
Zeros(n) == [i \in 1..n |-> 0]

\* isprint() in the C locale.
isprint(c) == c >= 32 /\ c <= 126

\* strlen of a char array: the number of chars before the first NUL.  An
\* array without NUL has no strlen inside its bounds; callers check first.
RECURSIVE strlenFrom(_, _)
strlenFrom(s, i) ==
    IF i > Len(s) \/ s[i] = 0 THEN i - 1 ELSE strlenFrom(s, i + 1)

strlen(s) == strlenFrom(s, 1)

\* The bytes of a float array: each float is its IEEE-754 bit pattern, laid
\* out as a little-endian uint32_t.
RECURSIVE FloatBytes(_, _)
FloatBytes(data, n) ==
    IF n = 0 THEN << >>
    ELSE FloatBytes(data, n - 1) \o U32LE(data[n])

(* ----------------------------------------------------------------------- *)
(* types.c                                                                 *)
(* ----------------------------------------------------------------------- *)
vdb_metric_is_valid(metric) ==
    metric = VDB_METRIC_COSINE \/ metric = VDB_METRIC_EUCLIDEAN

\* The scan loop of vdb_id_is_valid: the value of len when the loop ends, or
\* -1 when a non-printable char is met first.
RECURSIVE IdScan(_, _)
IdScan(id, len) ==
    IF len >= VDB_ID_MAX_LEN THEN len
    ELSE IF id[len + 1] = 0 THEN len
    ELSE IF ~isprint(id[len + 1]) THEN -1
    ELSE IdScan(id, len + 1)

\* A validity check that does not look at what the chars are.
vdb_id_is_valid_unprinted(id) ==
    IF id = NULLSTR THEN FALSE
    ELSE IF id[1] = 0 THEN FALSE
    ELSE \E n \in 1..(VDB_ID_MAX_LEN - 1) : id[n + 1] = 0

\* A validity check whose test of the length is off by one.
vdb_id_is_valid_long(id) ==
    IF id = NULLSTR THEN FALSE
    ELSE IF id[1] = 0 THEN FALSE
    ELSE IdScan(id, 0) >= 0 /\ IdScan(id, 0) <= VDB_ID_MAX_LEN

vdb_id_is_valid(id) ==
    IF id = NULLSTR THEN FALSE
    ELSE IF id[1] = 0 THEN FALSE
    ELSE IdScan(id, 0) >= 0 /\ IdScan(id, 0) < VDB_ID_MAX_LEN

\* strncpy(dst, src, n): the chars of src up to its NUL, then NUL padding up
\* to n bytes; bytes of dst beyond n are kept.
strncpy(dst, src, n) ==
    LET l == strlen(src)
    IN  [i \in 1..Len(dst) |->
            IF i > n THEN dst[i]
            ELSE IF i <= l THEN src[i]
            ELSE 0]

\* A copy that clears dst before it looks at src.
vdb_id_copy_clearing(src, dst) ==
    IF ~vdb_id_is_valid(src)
    THEN [status |-> VDB_ERROR_INVALID_ARGUMENT, dst |-> Zeros(Len(dst))]
    ELSE [status |-> VDB_OK,
          dst |-> [strncpy(dst, src, VDB_ID_MAX_LEN - 1) EXCEPT ![VDB_ID_MAX_LEN] = 0]]

\* vdb_id_copy: [status, dst].
vdb_id_copy(src, dst) ==
    IF ~vdb_id_is_valid(src)
    THEN [status |-> VDB_ERROR_INVALID_ARGUMENT, dst |-> dst]
    ELSE [status |-> VDB_OK,
          dst |-> [strncpy(dst, src, VDB_ID_MAX_LEN - 1) EXCEPT ![VDB_ID_MAX_LEN] = 0]]

(* ----------------------------------------------------------------------- *)
(* collection.c                                                            *)
(* ----------------------------------------------------------------------- *)
\* strnlen(s, n) of a C string given by its chars.
strnlen(s, n) == IF Len(s) < n THEN Len(s) ELSE n

\* A validation that does not look at the dimension.
vdb_collection_validate_params_nodim(name, dim, metric) ==
    IF name = NULLSTR THEN VDB_ERROR_INVALID_ARGUMENT
    ELSE IF Len(name) = 0 THEN VDB_ERROR_INVALID_ARGUMENT
    ELSE IF strnlen(name, VDB_COLLECTION_NAME_MAX_LEN)
            >= VDB_COLLECTION_NAME_MAX_LEN
    THEN VDB_ERROR_INVALID_ARGUMENT
    ELSE IF \E i \in 1..Len(name) : ~isprint(name[i])
    THEN VDB_ERROR_INVALID_ARGUMENT
    ELSE IF ~vdb_metric_is_valid(metric) THEN VDB_ERROR_INVALID_ARGUMENT
    ELSE VDB_OK

\* A validation whose test of the length is off by one.
vdb_collection_validate_params_long(name, dim, metric) ==
    IF name = NULLSTR THEN VDB_ERROR_INVALID_ARGUMENT
    ELSE IF Len(name) = 0 THEN VDB_ERROR_INVALID_ARGUMENT
    ELSE IF strnlen(name, VDB_COLLECTION_NAME_MAX_LEN)
            > VDB_COLLECTION_NAME_MAX_LEN
    THEN VDB_ERROR_INVALID_ARGUMENT
    ELSE IF \E i \in 1..strnlen(name, VDB_COLLECTION_NAME_MAX_LEN) :
                ~isprint(name[i])
    THEN VDB_ERROR_INVALID_ARGUMENT
    ELSE IF dim = 0 \/ dim > VDB_COLLECTION_MAX_DIM
    THEN VDB_ERROR_INVALID_ARGUMENT
    ELSE IF ~vdb_metric_is_valid(metric) THEN VDB_ERROR_INVALID_ARGUMENT
    ELSE VDB_OK

\* name is NULLSTR or the chars of a C string.
vdb_collection_validate_params(name, dim, metric) ==
    IF name = NULLSTR THEN VDB_ERROR_INVALID_ARGUMENT
    ELSE IF Len(name) = 0 THEN VDB_ERROR_INVALID_ARGUMENT
    ELSE LET name_len == strnlen(name, VDB_COLLECTION_NAME_MAX_LEN)
         IN  IF name_len >= VDB_COLLECTION_NAME_MAX_LEN
             THEN VDB_ERROR_INVALID_ARGUMENT
             ELSE IF \E i \in 1..name_len : ~isprint(name[i])
             THEN VDB_ERROR_INVALID_ARGUMENT
             ELSE IF dim = 0 \/ dim > VDB_COLLECTION_MAX_DIM
             THEN VDB_ERROR_INVALID_ARGUMENT
             ELSE IF ~vdb_metric_is_valid(metric)
             THEN VDB_ERROR_INVALID_ARGUMENT
             ELSE VDB_OK

(* ----------------------------------------------------------------------- *)
(* The file system: one collection directory and its five files            *)
(* ----------------------------------------------------------------------- *)
FileNames ==
    {"collection.meta", "embeddings.seg", "ids.seg", "metadata.seg", "wal.log"}

\* No directory, no file.
EmptyFs ==
    [dir |-> FALSE, exists |-> {},
     collection_meta |-> << >>, embeddings_seg |-> << >>, ids_seg |-> << >>,
     metadata_seg |-> << >>, wal_log |-> << >>]

(* ----------------------------------------------------------------------- *)
(* MetadataStore: the text of collection.meta                              *)
(* ----------------------------------------------------------------------- *)
\* printf's %u / %lu of a non-negative number.
RECURSIVE DecDigits(_)
DecDigits(n) ==
    IF n < 10 THEN << 48 + n >>
    ELSE DecDigits(n \div 10) \o << 48 + (n % 10) >>

\* printf's %d.
DecInt(n) == IF n < 0 THEN << 45 >> \o DecDigits(0 - n) ELSE DecDigits(n)

\* "dimension=", "metric=", "count=" and "\n".
LitDimension == << 100, 105, 109, 101, 110, 115, 105, 111, 110, 61 >>
LitMetric == << 109, 101, 116, 114, 105, 99, 61 >>
LitCount == << 99, 111, 117, 110, 116, 61 >>
LitNewline == << 10 >>

\* A metadata text with the dimension and the metric in each other's place.
MetaTextSwapped(dim, metric, count) ==
    LitDimension \o DecInt(metric) \o LitNewline
    \o LitMetric \o DecDigits(dim) \o LitNewline
    \o LitCount \o DecDigits(count) \o LitNewline

\* The three fprintf calls of write_collection_meta.
MetaText(dim, metric, count) ==
    LitDimension \o DecDigits(dim) \o LitNewline
    \o LitMetric \o DecInt(metric) \o LitNewline
    \o LitCount \o DecDigits(count) \o LitNewline

\* The outcomes of write_collection_meta's I/O: all of it works, fopen
\* fails, or the flush in fclose fails after fopen truncated the file.
MetaFaults == {"none", "fopen", "fclose"}

\* A write that opens the file to append to it (fopen(path, "a")).
write_collection_meta_appending(fs, dim, metric, count, fault, kept) ==
    IF fault = "fopen" \/ ~fs.dir
    THEN [status |-> VDB_ERROR_IO, fs |-> fs]
    ELSE [status |-> IF fault = "fclose" THEN VDB_ERROR_IO ELSE VDB_OK,
          fs |-> [fs EXCEPT !.exists = @ \cup {"collection.meta"},
                            !.collection_meta =
                                @ \o SubSeq(MetaText(dim, metric, count), 1,
                                            IF fault # "fclose"
                                            THEN Len(MetaText(dim, metric, count))
                                            ELSE IF kept
                                            THEN Len(MetaText(dim, metric, count))
                                                 \div 2
                                            ELSE 0)]]

\* write_collection_meta: [status, fs].  fopen(path, "w") needs the
\* directory; it creates or truncates the file.  A failed fclose leaves what
\* the flush got out before failing: nothing, or the first half.
write_collection_meta(fs, dim, metric, count, fault, kept) ==
    IF fault = "fopen" \/ ~fs.dir
    THEN [status |-> VDB_ERROR_IO, fs |-> fs]
    ELSE LET text == MetaText(dim, metric, count)
             made == [fs EXCEPT !.exists = @ \cup {"collection.meta"}]
         IN  IF fault = "fclose"
             THEN [status |-> VDB_ERROR_IO,
                   fs |-> [made EXCEPT !.collection_meta =
                              SubSeq(text, 1, IF kept THEN Len(text) \div 2 ELSE 0)]]
             ELSE [status |-> VDB_OK,
                   fs |-> [made EXCEPT !.collection_meta = text]]

\* isspace() in the C locale.
isspace(c) == c \in {32, 9, 10, 11, 12, 13}
isdigit(c) == c >= 48 /\ c <= 57

\* scanf: a white-space directive skips any run of white space.
RECURSIVE SkipSpace(_, _)
SkipSpace(t, p) ==
    IF p <= Len(t) /\ isspace(t[p]) THEN SkipSpace(t, p + 1) ELSE p

\* scanf: an ordinary character of the format must match the input; the
\* position after the literal, or 0 when the input differs.
MatchLiteral(t, p, lit) ==
    IF p + Len(lit) - 1 <= Len(t) /\ SubSeq(t, p, p + Len(lit) - 1) = lit
    THEN p + Len(lit)
    ELSE 0

RECURSIVE ScanDigits(_, _, _)
ScanDigits(t, p, acc) ==
    IF p <= Len(t) /\ isdigit(t[p])
    THEN ScanDigits(t, p + 1, acc * 10 + (t[p] - 48))
    ELSE [val |-> acc, next |-> p]

\* scanf's %u, %d, %lu: skip white space, an optional sign, then at least
\* one digit; next = 0 when the conversion fails.
\* The digits from q on, the sign (if any) being at p.
ScanDigitsAt(t, p, q, d) ==
    IF d.next = q THEN [val |-> 0, next |-> 0]
    ELSE [val |-> IF q > p /\ t[p] = 45 THEN 0 - d.val ELSE d.val,
          next |-> d.next]

ScanSignAt(t, p, q) == ScanDigitsAt(t, p, q, ScanDigits(t, q, 0))

ScanNumberAt(t, p) ==
    ScanSignAt(t, p, IF p <= Len(t) /\ t[p] \in {43, 45} THEN p + 1 ELSE p)

ScanNumber(t, p0) == ScanNumberAt(t, SkipSpace(t, p0))

\* fscanf(fp, "dimension=%u\nmetric=%d\ncount=%lu\n", ...): n is the number
\* of conversions made; the values of the conversions not made are 0.
\* After the third conversion z.
ScanMetaEnd(dim, metric, z) ==
    [n |-> IF z.next = 0 THEN 2 ELSE 3,
     dim |-> dim, metric |-> metric, count |-> z.val]

\* "count=" was looked for and ends before c (0: not found).
ScanMetaCount(t, dim, metric, c) ==
    ScanMetaEnd(dim, metric,
                IF c = 0 THEN [val |-> 0, next |-> 0] ELSE ScanNumber(t, c))

\* After the second conversion y.
ScanMetaMetricEnd(t, dim, y) ==
    IF y.next = 0
    THEN [n |-> 1, dim |-> dim, metric |-> 0, count |-> 0]
    ELSE ScanMetaCount(t, dim, y.val,
                       MatchLiteral(t, SkipSpace(t, y.next), LitCount))

\* "metric=" was looked for and ends before b (0: not found).
ScanMetaMetric(t, dim, b) ==
    ScanMetaMetricEnd(t, dim,
                      IF b = 0 THEN [val |-> 0, next |-> 0] ELSE ScanNumber(t, b))

\* After the first conversion x.
ScanMetaDimEnd(t, x) ==
    IF x.next = 0
    THEN [n |-> 0, dim |-> 0, metric |-> 0, count |-> 0]
    ELSE ScanMetaMetric(t, x.val,
                        MatchLiteral(t, SkipSpace(t, x.next), LitMetric))

\* "dimension=" was looked for and ends before a (0: not found).
ScanMetaDim(t, a) ==
    ScanMetaDimEnd(t, IF a = 0 THEN [val |-> 0, next |-> 0] ELSE ScanNumber(t, a))

ScanMeta(t) == ScanMetaDim(t, MatchLiteral(t, 1, LitDimension))

\* Checks that do not ask how many conversions fscanf made.
MetaCheckedLoose(r) ==
    IF r.dim = 0 \/ r.dim > VDB_COLLECTION_MAX_DIM
       \/ ~vdb_metric_is_valid(r.metric)
    THEN [status |-> VDB_ERROR_CORRUPTED,
          dim |-> r.dim, metric |-> r.metric, count |-> r.count]
    ELSE [status |-> VDB_OK,
          dim |-> r.dim, metric |-> r.metric, count |-> r.count]

\* The checks read_collection_meta makes on what fscanf gave: r.n
\* conversions, and the values r.dim, r.metric, r.count.
MetaChecked(r) ==
    IF r.n # 3
    THEN [status |-> VDB_ERROR_CORRUPTED,
          dim |-> r.dim, metric |-> r.metric, count |-> r.count]
    ELSE IF r.dim = 0 \/ r.dim > VDB_COLLECTION_MAX_DIM
            \/ ~vdb_metric_is_valid(r.metric)
    THEN [status |-> VDB_ERROR_CORRUPTED,
          dim |-> r.dim, metric |-> r.metric, count |-> r.count]
    ELSE [status |-> VDB_OK,
          dim |-> r.dim, metric |-> r.metric, count |-> r.count]

\* read_collection_meta: [status, dim, metric, count].
read_collection_meta(fs, fopen_fails) ==
    IF fopen_fails \/ ~fs.dir \/ "collection.meta" \notin fs.exists
    THEN [status |-> VDB_ERROR_NOT_FOUND, dim |-> 0, metric |-> 0, count |-> 0]
    ELSE MetaChecked(ScanMeta(fs.collection_meta))

(* ----------------------------------------------------------------------- *)
(* File descriptors and the handle                                         *)
(* ----------------------------------------------------------------------- *)
\* open() returns the lowest descriptor not in use (0..2 are the standard
\* streams).
AllocFd(fds) ==
    CHOOSE n \in 3..(3 + Cardinality(fds)) :
        n \notin fds /\ \A m \in 3..(n - 1) : m \in fds

\* A handle that is given the cosine metric whatever the caller asked for.
NewStorageCosine(dim, metric, count) ==
    [dim |-> dim, metric |-> VDB_METRIC_COSINE, count |-> count,
     embeddings_fd |-> -1, ids_fd |-> -1, metadata_fd |-> -1, wal_fd |-> -1]

\* struct vdb_storage after the "init fields" block: no descriptor yet.
\* base_dir and name are the model's single path; meta_fd is never used.
NewStorage(dim, metric, count) ==
    [dim |-> dim, metric |-> metric, count |-> count,
     embeddings_fd |-> -1, ids_fd |-> -1, metadata_fd |-> -1, wal_fd |-> -1]

\* The open() calls of open_segment_files, and the one that fails.
OpenFaults == {"none", "open_emb", "open_ids", "open_md", "open_wal"}

\* open_segment_files: [status, fs, fds, storage, opened, closed].  Each
\* successful open creates its file (O_CREAT); a failed one closes the
\* descriptors opened before it.  opened and closed are the descriptors the
\* open() calls returned and those given to close(), in the order of the
\* calls.
open_segment_files(fs, fds, storage, fault) ==
    IF fault = "open_emb"
    THEN [status |-> VDB_ERROR_IO, fs |-> fs, fds |-> fds,
          storage |-> [storage EXCEPT !.embeddings_fd = -1],
          opened |-> << >>, closed |-> << >>]
    ELSE
    LET fd1 == AllocFd(fds)
        fs1 == [fs EXCEPT !.exists = @ \cup {"embeddings.seg"}]
        st1 == [storage EXCEPT !.embeddings_fd = fd1]
    IN  IF fault = "open_ids"
        THEN [status |-> VDB_ERROR_IO, fs |-> fs1, fds |-> fds,
              storage |-> [st1 EXCEPT !.ids_fd = -1],
              opened |-> << fd1 >>, closed |-> << fd1 >>]
        ELSE
        LET fd2 == AllocFd(fds \cup {fd1})
            fs2 == [fs1 EXCEPT !.exists = @ \cup {"ids.seg"}]
            st2 == [st1 EXCEPT !.ids_fd = fd2]
        IN  IF fault = "open_md"
            THEN [status |-> VDB_ERROR_IO, fs |-> fs2, fds |-> fds,
                  storage |-> [st2 EXCEPT !.metadata_fd = -1],
                  opened |-> << fd1, fd2 >>, closed |-> << fd1, fd2 >>]
            ELSE
            LET fd3 == AllocFd(fds \cup {fd1, fd2})
                fs3 == [fs2 EXCEPT !.exists = @ \cup {"metadata.seg"}]
                st3 == [st2 EXCEPT !.metadata_fd = fd3]
            IN  IF fault = "open_wal"
                THEN [status |-> VDB_ERROR_IO, fs |-> fs3, fds |-> fds,
                      storage |-> [st3 EXCEPT !.wal_fd = -1],
                      opened |-> << fd1, fd2, fd3 >>,
                      closed |-> << fd1, fd2, fd3 >>]
                ELSE
                LET fd4 == AllocFd(fds \cup {fd1, fd2, fd3})
                IN  [status |-> VDB_OK,
                     fs |-> [fs3 EXCEPT !.exists = @ \cup {"wal.log"}],
                     fds |-> fds \cup {fd1, fd2, fd3, fd4},
                     storage |-> [st3 EXCEPT !.wal_fd = fd4],
                     opened |-> << fd1, fd2, fd3, fd4 >>, closed |-> << >>]

\* The descriptors of ds that are descriptors (>= 0), in their order.
OpenOnes(ds) == SelectSeq(ds, LAMBDA d : d >= 0)

\* A close of the segment files that forgets the descriptor of the WAL.
close_segment_files_leaky(fds, storage) ==
    [fds |-> fds \ {storage.embeddings_fd, storage.ids_fd,
                    storage.metadata_fd},
     storage |-> [storage EXCEPT !.embeddings_fd = -1, !.ids_fd = -1,
                                 !.metadata_fd = -1],
     closed |-> OpenOnes(<< storage.embeddings_fd, storage.ids_fd,
                            storage.metadata_fd >>)]

\* close_segment_files: [fds, storage, closed], closed being the descriptors
\* given to close(), in the order of the calls.
close_segment_files(fds, storage) ==
    [fds |-> fds \ {storage.embeddings_fd, storage.ids_fd,
                    storage.metadata_fd, storage.wal_fd},
     storage |-> [storage EXCEPT !.embeddings_fd = -1, !.ids_fd = -1,
                                 !.metadata_fd = -1, !.wal_fd = -1],
     closed |-> OpenOnes(<< storage.embeddings_fd, storage.ids_fd,
                            storage.metadata_fd, storage.wal_fd >>)]

(* ----------------------------------------------------------------------- *)
(* WriteAheadLog                                                           *)
(* ----------------------------------------------------------------------- *)
\* The system calls of recover_from_wal, and the one that fails.
RecoverFaults == {"none", "lseek", "ftruncate"}

\* The fields of the wal_record_header_t at the head of a log w of at least
\* sizeof(wal_record_header_t) bytes.
WalIdLen(w) == ReadU32LE(w, 2)
WalVectorDim(w) == ReadU32LE(w, 6)
WalMetadataLen(w) == ReadU32LE(w, 10)

\* The length of the record that header announces.
WalRecordLen(w) ==
    SizeofWalHeader + WalIdLen(w) + WalVectorDim(w) * SizeofFloat
    + WalMetadataLen(w)

\* A recovery that applies the record at the head of the log to the three
\* segments whenever the record is complete, without asking whether the
\* segments hold it already.
recover_from_wal_replaying(fs, storage, fault) ==
    IF fault = "lseek"
    THEN [status |-> VDB_ERROR_IO, fs |-> fs, storage |-> storage]
    ELSE IF Len(fs.wal_log) = 0
    THEN [status |-> VDB_OK, fs |-> fs, storage |-> storage]
    ELSE IF fault = "ftruncate"
    THEN [status |-> VDB_ERROR_IO, fs |-> fs, storage |-> storage]
    ELSE IF Len(fs.wal_log) >= SizeofWalHeader
            /\ Len(fs.wal_log) >= WalRecordLen(fs.wal_log)
    THEN [status |-> VDB_OK,
          fs |-> [fs EXCEPT
                    !.embeddings_seg = @ \o
                        SubSeq(fs.wal_log,
                               SizeofWalHeader + WalIdLen(fs.wal_log) + 1,
                               SizeofWalHeader + WalIdLen(fs.wal_log)
                               + WalVectorDim(fs.wal_log) * SizeofFloat),
                    !.ids_seg = @ \o
                        SubSeq(fs.wal_log, SizeofWalHeader + 1,
                               SizeofWalHeader + WalIdLen(fs.wal_log))
                        \o Zeros(VDB_ID_MAX_LEN - WalIdLen(fs.wal_log)),
                    !.metadata_seg = @ \o U32LE(WalMetadataLen(fs.wal_log)) \o
                        SubSeq(fs.wal_log,
                               WalRecordLen(fs.wal_log)
                               - WalMetadataLen(fs.wal_log) + 1,
                               WalRecordLen(fs.wal_log)),
                    !.wal_log = << >>],
          storage |-> [storage EXCEPT !.count = @ + 1]]
    ELSE [status |-> VDB_OK, fs |-> [fs EXCEPT !.wal_log = << >>],
          storage |-> storage]

\* A recovery that looks at the log and leaves it as it is.
recover_from_wal_keeping(fs, storage, fault) ==
    IF fault = "lseek"
    THEN [status |-> VDB_ERROR_IO, fs |-> fs, storage |-> storage]
    ELSE [status |-> VDB_OK, fs |-> fs, storage |-> storage]

\* recover_from_wal: [status, fs, storage].  A non-empty log is truncated;
\* nothing is read from it and no segment is written.
recover_from_wal(fs, storage, fault) ==
    IF fault = "lseek"
    THEN [status |-> VDB_ERROR_IO, fs |-> fs, storage |-> storage]
    ELSE IF Len(fs.wal_log) = 0
    THEN [status |-> VDB_OK, fs |-> fs, storage |-> storage]
    ELSE IF fault = "ftruncate"
    THEN [status |-> VDB_ERROR_IO, fs |-> fs, storage |-> storage]
    ELSE [status |-> VDB_OK, fs |-> [fs EXCEPT !.wal_log = << >>],
          storage |-> storage]

(* ----------------------------------------------------------------------- *)
(* StorageHandle: create, open, close                                      *)
(* ----------------------------------------------------------------------- *)
\* The steps of vdb_storage_create that can fail, and the one that does.
CreateFaults ==
    {"none", "mkdir_base", "mkdir_coll", "fopen", "fclose", "calloc",
     "open_emb", "open_ids", "open_md", "open_wal", "lseek"}

\* create_directory on the collection path, whose parent create_directory
\* has just made: the directory exists, or mkdir makes it, or mkdir fails.
create_directory(fs, mkdir_fails) ==
    IF fs.dir THEN [status |-> VDB_OK, fs |-> fs]
    ELSE IF mkdir_fails THEN [status |-> VDB_ERROR_IO, fs |-> fs]
    ELSE [status |-> VDB_OK, fs |-> [fs EXCEPT !.dir = TRUE]]

\* What create and open return: [status, fs, fds, out, opened, closed], out
\* being what the call stored in *out_storage, or NULL when it stored
\* nothing, opened and closed the descriptors the call got from open() and
\* gave to close().
\* A failure after the segment files were opened.
FailedAfter(status, fs, fds, opened, closed) ==
    [status |-> status, fs |-> fs, fds |-> fds, out |-> NULL,
     opened |-> opened, closed |-> closed]

\* A failure before them.
Failed(status, fs, fds) == FailedAfter(status, fs, fds, << >>, << >>)

\* The end of create and of open: r is what recover_from_wal returned on the
\* files o that open_segment_files opened.
AfterRecover(o, r) ==
    IF r.status # VDB_OK
    THEN FailedAfter(r.status, r.fs,
                     close_segment_files(o.fds, r.storage).fds, o.opened,
                     o.closed \o close_segment_files(o.fds, r.storage).closed)
    ELSE [status |-> VDB_OK, fs |-> r.fs, fds |-> o.fds, out |-> r.storage,
          opened |-> o.opened, closed |-> o.closed]

\* An end of create in which a failed open_segment_files is followed by
\* close_segment_files, as a failed recovery is.
AfterOpenSegmentsClosing(o, fault) ==
    IF o.status # VDB_OK
    THEN FailedAfter(o.status, o.fs,
                     close_segment_files(o.fds, o.storage).fds, o.opened,
                     o.closed \o close_segment_files(o.fds, o.storage).closed)
    ELSE AfterRecover(o, recover_from_wal(o.fs, o.storage,
                             IF fault \in RecoverFaults THEN fault ELSE "none"))

\* o is what open_segment_files returned.
AfterOpenSegments(o, fault) ==
    IF o.status # VDB_OK
    THEN FailedAfter(o.status, o.fs, o.fds, o.opened, o.closed)
    ELSE AfterRecover(o, recover_from_wal(o.fs, o.storage,
                             IF fault \in RecoverFaults THEN fault ELSE "none"))

\* create, m being what write_collection_meta returned.
CreateAfterMeta(m, fds, args, fault) ==
    IF m.status # VDB_OK THEN Failed(m.status, m.fs, fds)
    ELSE IF fault = "calloc" THEN Failed(VDB_ERROR_OUT_OF_MEMORY, m.fs, fds)
    ELSE AfterOpenSegments(
             open_segment_files(m.fs, fds, NewStorage(args.dim, args.metric, 0),
                                IF fault \in OpenFaults THEN fault ELSE "none"),
             fault)

\* create, d being what create_directory(coll_path) returned.
CreateAfterMkdir(d, fds, args, fault, kept) ==
    IF d.status # VDB_OK THEN Failed(d.status, d.fs, fds)
    ELSE CreateAfterMeta(
             write_collection_meta(d.fs, args.dim, args.metric, 0,
                                   IF fault \in MetaFaults THEN fault ELSE "none",
                                   kept),
             fds, args, fault)

\* A create that does not ask whether the collection directory exists.
vdb_storage_create_over(fs, fds, args, fault, kept) ==
    IF args.base_dir = NULLSTR \/ args.name = NULLSTR \/ args.out_storage = NULL
    THEN Failed(VDB_ERROR_INVALID_ARGUMENT, fs, fds)
    ELSE IF vdb_collection_validate_params(args.name, args.dim, args.metric)
            # VDB_OK
    THEN Failed(vdb_collection_validate_params(args.name, args.dim, args.metric),
                fs, fds)
    ELSE IF fault = "mkdir_base" THEN Failed(VDB_ERROR_IO, fs, fds)
    ELSE CreateAfterMkdir(create_directory(fs, fault = "mkdir_coll"),
                          fds, args, fault, kept)

\* vdb_storage_create.
\* args = [base_dir, name, dim, metric, out_storage], the pointers NULL or not.
vdb_storage_create(fs, fds, args, fault, kept) ==
    IF args.base_dir = NULLSTR \/ args.name = NULLSTR \/ args.out_storage = NULL
    THEN Failed(VDB_ERROR_INVALID_ARGUMENT, fs, fds)
    ELSE IF vdb_collection_validate_params(args.name, args.dim, args.metric)
            # VDB_OK
    THEN Failed(vdb_collection_validate_params(args.name, args.dim, args.metric),
                fs, fds)
    ELSE IF fs.dir THEN Failed(VDB_ERROR_ALREADY_EXISTS, fs, fds)
    ELSE IF fault = "mkdir_base" THEN Failed(VDB_ERROR_IO, fs, fds)
    ELSE CreateAfterMkdir(create_directory(fs, fault = "mkdir_coll"),
                          fds, args, fault, kept)

\* The steps of vdb_storage_open that can fail, and the one that does.
OpenCallFaults ==
    {"none", "fopen", "calloc", "open_emb", "open_ids", "open_md", "open_wal",
     "lseek", "ftruncate"}

\* open, m being what read_collection_meta returned.
OpenAfterMeta(m, fs, fds, fault) ==
    IF m.status # VDB_OK THEN Failed(m.status, fs, fds)
    ELSE IF fault = "calloc" THEN Failed(VDB_ERROR_OUT_OF_MEMORY, fs, fds)
    ELSE AfterOpenSegments(
             open_segment_files(fs, fds, NewStorage(m.dim, m.metric, m.count),
                                IF fault \in OpenFaults THEN fault ELSE "none"),
             fault)

\* vdb_storage_open.  The function is declared in storage.h and has no body
\* in storage.c; this is the open of the specification, built like
\* vdb_storage_create from read_collection_meta, open_segment_files and
\* recover_from_wal.
vdb_storage_open(fs, fds, args, fault) ==
    IF args.base_dir = NULLSTR \/ args.name = NULLSTR \/ args.out_storage = NULL
    THEN Failed(VDB_ERROR_INVALID_ARGUMENT, fs, fds)
    ELSE IF ~fs.dir THEN Failed(VDB_ERROR_NOT_FOUND, fs, fds)
    ELSE OpenAfterMeta(read_collection_meta(fs, fault = "fopen"), fs, fds, fault)

\* A close that releases the descriptors and the handle and does not write
\* collection.meta.
vdb_storage_close_unsaved(fs, fds, storage, fault, kept) ==
    IF storage = NULL
    THEN [fs |-> fs, fds |-> fds, storage |-> storage, closed |-> << >>]
    ELSE [fs |-> fs, fds |-> close_segment_files(fds, storage).fds,
          storage |-> NULL, closed |-> close_segment_files(fds, storage).closed]

\* A close that leaves the caller's pointer as it was.
vdb_storage_close_dangling(fs, fds, storage, fault, kept) ==
    IF storage = NULL
    THEN [fs |-> fs, fds |-> fds, storage |-> storage, closed |-> << >>]
    ELSE [fs |-> write_collection_meta(fs, storage.dim, storage.metric,
                                       storage.count, fault, kept).fs,
          fds |-> close_segment_files(fds, storage).fds,
          storage |-> close_segment_files(fds, storage).storage,
          closed |-> close_segment_files(fds, storage).closed]

\* vdb_storage_close on the caller's pointer: [fs, fds, storage, closed].
\* The status of write_collection_meta is dropped.
vdb_storage_close(fs, fds, storage, fault, kept) ==
    IF storage = NULL
    THEN [fs |-> fs, fds |-> fds, storage |-> storage, closed |-> << >>]
    ELSE LET c == close_segment_files(fds, storage)
             m == write_collection_meta(fs, storage.dim, storage.metric,
                                        storage.count, fault, kept)
         IN  [fs |-> m.fs, fds |-> c.fds, storage |-> NULL,
              closed |-> c.closed]

(* ----------------------------------------------------------------------- *)
(* Items and what append writes of them                                    *)
(* ----------------------------------------------------------------------- *)
\* A vdb_id_t holding the chars s, NUL and then the chars tail (what the
\* array held before), NUL-filled to 64 bytes.
MkId(s, tail) ==
    s \o << 0 >> \o tail \o Zeros(VDB_ID_MAX_LEN - Len(s) - 1 - Len(tail))

\* id "a", vector [1.0], no metadata.
ItemA ==
    [id |-> MkId(<< 97 >>, << >>),
     vector |-> [dim |-> 1, data |-> << 1065353216 >>],
     metadata |-> NULLSTR]

\* id "bc", vector [0.0, 1.0], metadata "{}".
ItemB ==
    [id |-> MkId(<< 98, 99 >>, << >>),
     vector |-> [dim |-> 2, data |-> << 0, 1065353216 >>],
     metadata |-> << 123, 125 >>]

\* id "d" in an array that held "wxyz" before, vector [1.0, 0.0], metadata "".
ItemC ==
    [id |-> MkId(<< 100 >>, << 121, 122 >>),
     vector |-> [dim |-> 2, data |-> << 1065353216, 0 >>],
     metadata |-> << >>]

\* An empty id, vector [0.0].
ItemNoId ==
    [id |-> Zeros(VDB_ID_MAX_LEN),
     vector |-> [dim |-> 1, data |-> << 0 >>],
     metadata |-> NULLSTR]

\* An id of 64 chars 'x' with no NUL in the array, vector [0.0, 0.0].
ItemLongId ==
    [id |-> [i \in 1..VDB_ID_MAX_LEN |-> 120],
     vector |-> [dim |-> 2, data |-> << 0, 0 >>],
     metadata |-> NULLSTR]

\* The id "e\a" (a BEL char after the 'e'), vector [1.0].
ItemCtrlId ==
    [id |-> MkId(<< 101, 7 >>, << >>),
     vector |-> [dim |-> 1, data |-> << 1065353216 >>],
     metadata |-> NULLSTR]

Items == {ItemA, ItemB, ItemC, ItemNoId, ItemLongId, ItemCtrlId}

\* item->metadata ? (uint32_t)strlen(item->metadata) : 0
MetadataLen(item) == IF item.metadata = NULLSTR THEN 0 ELSE Len(item.metadata)

\* wal_record_header_t as write_wal_record fills it, byte by byte.
WalHeader(item) ==
    << WAL_RECORD_APPEND >> \o U32LE(strlen(item.id))
    \o U32LE(item.vector.dim) \o U32LE(MetadataLen(item))

\* An id write that takes the whole 64-byte array.
WalIdBytesWhole(item) == item.id

\* The id bytes of the WAL record: header.id_len bytes of item->id.
WalIdBytes(item) == SubSeq(item.id, 1, strlen(item.id))

\* A vector write that stops one float short.
VectorBytesShort(item, dim) == FloatBytes(item.vector.data, dim - 1)

\* dim floats of item->vector.data.
VectorBytes(item, dim) == FloatBytes(item.vector.data, dim)

\* The metadata bytes: metadata_len bytes of item->metadata.
MetadataBytes(item) ==
    IF item.metadata = NULLSTR THEN << >> ELSE item.metadata

\* padded_id: memset to 0, then vdb_id_copy.
PaddedId(item) == vdb_id_copy(item.id, Zeros(VDB_ID_MAX_LEN)).dst

\* The whole WAL record of an item.
WalRecord(item) ==
    WalHeader(item) \o WalIdBytes(item)
    \o VectorBytes(item, item.vector.dim) \o MetadataBytes(item)

\* The record of an item in the metadata segment.
MetadataRecord(item) == U32LE(MetadataLen(item)) \o MetadataBytes(item)

(* ----------------------------------------------------------------------- *)
(* State                                                                   *)
(* ----------------------------------------------------------------------- *)
VARIABLES
    fs,        \* the collection directory and the content of its files
    fds,       \* the descriptors the process holds open
    durable,   \* per file, the length of the prefix an fsync has covered
    storage,   \* the caller's vdb_storage_t pointer: NULL or the handle
    pc,        \* "idle", or the step an executing vdb_storage_append is at
    item,      \* the item of the executing append, NULL when idle
    ret,       \* the last call made and the status it returned
    acked,     \* history: the items whose append returned VDB_OK
    faulted,   \* history: an append failed, or the process died inside one
    pre,       \* history: segments, WAL and count when the last append began
    crash,     \* history: where the process last died, with no append since
    recs,      \* history: successful opens since that death
    rec1,      \* history: segments, WAL and count after the first of them
    life,      \* history: "created", then "closed" by a close that wrote the
               \* metadata, then "reopened"; "other" after anything else
    walDirty,  \* history: an append on this handle failed or kept its record
    segDirty,  \* history: an append on this handle failed at a segment write
               \* or fsync
    calls,     \* history: calls made, for the bounds
    arg,       \* history: what the last create, open or append call was given
    origin,    \* history: the arguments of the create that made the collection
    fdlog,     \* history: the descriptors the last create, open or close got
               \* from open() and gave to close(), in the order of the calls
    collection, \* the caller's vdb_collection_t pointer (collection.c), which
                \* the storage layer never sees
    vector     \* a caller's vdb_vector_t (types.c), which the storage layer
               \* never sees

vars ==
    << fs, fds, durable, storage, pc, item, ret, acked, faulted, pre, crash,
       recs, rec1, life, walDirty, segDirty, calls, arg, origin, fdlog, collection,
       vector >>

\* No open() and no close().
NoFds == [opened |-> << >>, closed |-> << >>]

Snapshot(f, count) ==
    [embeddings_seg |-> f.embeddings_seg, ids_seg |-> f.ids_seg,
     metadata_seg |-> f.metadata_seg, wal_log |-> f.wal_log, count |-> count]

NoCrash == [pc |-> "none", item |-> NULL]

\* What the callers pass to create and open: the model's one valid
\* (base_dir, name) with two valid (dim, metric) pairs, and invalid ones.
ValidName == << 100, 101, 109, 111 >>
BaseDir == << 100, 97, 116, 97 >>

CreateArgs ==
    { [base_dir |-> BaseDir, name |-> ValidName, dim |-> 1,
       metric |-> VDB_METRIC_COSINE, out_storage |-> NonNull],
      [base_dir |-> BaseDir, name |-> ValidName, dim |-> 2,
       metric |-> VDB_METRIC_EUCLIDEAN, out_storage |-> NonNull],
      [base_dir |-> BaseDir, name |-> ValidName, dim |-> 0,
       metric |-> VDB_METRIC_COSINE, out_storage |-> NonNull],
      [base_dir |-> BaseDir, name |-> NULLSTR, dim |-> 2,
       metric |-> VDB_METRIC_COSINE, out_storage |-> NonNull],
      [base_dir |-> NULLSTR, name |-> ValidName, dim |-> 2,
       metric |-> VDB_METRIC_COSINE, out_storage |-> NonNull],
      [base_dir |-> BaseDir, name |-> ValidName, dim |-> 2,
       metric |-> VDB_METRIC_COSINE, out_storage |-> NULL],
      [base_dir |-> BaseDir, name |-> << 100, 7 >>, dim |-> 2,
       metric |-> VDB_METRIC_COSINE, out_storage |-> NonNull],
      [base_dir |-> BaseDir, name |-> ValidName, dim |-> 2,
       metric |-> 2, out_storage |-> NonNull] }

OpenArgs ==
    { [base_dir |-> BaseDir, name |-> ValidName, out_storage |-> NonNull] }

Init ==
    /\ fs = EmptyFs
    /\ fds = {}
    /\ durable = [embeddings_seg |-> 0, ids_seg |-> 0, metadata_seg |-> 0,
                  wal_log |-> 0]
    /\ storage = NULL
    /\ pc = "idle"
    /\ item = NULL
    /\ ret = [op |-> "none", status |-> VDB_OK, meta |-> VDB_OK]
    /\ acked = << >>
    /\ faulted = FALSE
    /\ pre = Snapshot(EmptyFs, 0)
    /\ crash = NoCrash
    /\ recs = 0
    /\ rec1 = Snapshot(EmptyFs, 0)
    /\ life = "none"
    /\ walDirty = FALSE
    /\ segDirty = FALSE
    /\ calls = [made |-> 0, mishaps |-> 0]
    /\ arg = NULL
    /\ origin = NULL
    /\ fdlog = NoFds
    /\ collection = NULL
    /\ vector = [dim |-> 0, data |-> NULL]

(* ----------------------------------------------------------------------- *)
(* Failing system calls                                                    *)
(* ----------------------------------------------------------------------- *)
\* A call may be made to fail while the behaviour has failures left, and
\* only where the failure is reached (it changes what the call does).
FaultCounts(failing, reached) ==
    failing => (calls.mishaps < MaxMishaps /\ reached)

Cost(failing) == IF failing THEN 1 ELSE 0

\* The faults of a set that the behaviour has failures left for.
Affordable(faults) == {f \in faults : FaultCounts(f # "none", TRUE)}

\* What a failed fclose leaves of the text: nothing, or its first half.
Kept(fault) == IF fault = "fclose" THEN BOOLEAN ELSE {FALSE}

(* ----------------------------------------------------------------------- *)
(* create, open, close                                                     *)
(* ----------------------------------------------------------------------- *)
Create ==
    /\ pc = "idle"
    /\ storage = NULL
    /\ calls.made < MaxCalls
    /\ \E args \in CreateArgs, fault \in Affordable(CreateFaults) :
          \E kept \in Kept(fault) :
          \E r \in {vdb_storage_create(fs, fds, args, fault, kept)} :
              /\ FaultCounts(fault # "none",
                             r # vdb_storage_create(fs, fds, args, "none", FALSE))
              /\ fs' = r.fs
              /\ fds' = r.fds
              /\ storage' = IF r.status = VDB_OK THEN r.out ELSE storage
              /\ ret' = [op |-> "create", status |-> r.status, meta |-> VDB_OK]
              /\ life' = IF r.status = VDB_OK THEN "created" ELSE life
              /\ arg' = args
              /\ origin' = IF r.status = VDB_OK THEN args ELSE origin
              /\ fdlog' = [opened |-> r.opened, closed |-> r.closed]
              /\ calls' = [calls EXCEPT !.made = @ + 1,
                                        !.mishaps = @ + Cost(fault # "none")]
    /\ walDirty' = FALSE
    /\ segDirty' = FALSE
    /\ UNCHANGED << durable, pc, item, acked, faulted, pre, crash, recs, rec1,
                    collection,
                    vector >>

Open ==
    /\ pc = "idle"
    /\ storage = NULL
    /\ calls.made < MaxCalls
    /\ \E args \in OpenArgs, fault \in Affordable(OpenCallFaults) :
          \E r \in {vdb_storage_open(fs, fds, args, fault)} :
          \E ok \in {r.status = VDB_OK} :
              /\ FaultCounts(fault # "none",
                             r # vdb_storage_open(fs, fds, args, "none"))
              /\ calls' = [calls EXCEPT !.made = @ + 1,
                                        !.mishaps = @ + Cost(fault # "none")]
              /\ fs' = r.fs
              /\ fds' = r.fds
              /\ storage' = IF ok THEN r.out ELSE storage
              /\ ret' = [op |-> "open", status |-> r.status, meta |-> VDB_OK]
              /\ arg' = args
              /\ fdlog' = [opened |-> r.opened, closed |-> r.closed]
              /\ durable' = IF Len(r.fs.wal_log) < durable.wal_log
                            THEN [durable EXCEPT !.wal_log = Len(r.fs.wal_log)]
                            ELSE durable
              /\ recs' = IF ok /\ crash.pc # "none" THEN recs + 1 ELSE recs
              /\ rec1' = IF ok /\ crash.pc # "none" /\ recs = 0
                         THEN Snapshot(r.fs, r.out.count) ELSE rec1
              /\ life' = IF ~ok THEN life
                         ELSE IF life = "closed" THEN "reopened" ELSE "other"
    /\ walDirty' = FALSE
    /\ segDirty' = FALSE
    /\ UNCHANGED << pc, item, acked, faulted, pre, crash, origin, collection,
                    vector >>

Close ==
    /\ pc = "idle"
    /\ \E fault \in MetaFaults : \E kept \in Kept(fault) :
          \E r \in {vdb_storage_close(fs, fds, storage, fault, kept)} :
              /\ FaultCounts(fault # "none", storage # NULL)
              /\ calls' = [calls EXCEPT !.mishaps = @ + Cost(fault # "none")]
              /\ fs' = r.fs
              /\ fds' = r.fds
              /\ storage' = r.storage
              /\ fdlog' = [opened |-> << >>, closed |-> r.closed]
              /\ ret' = [op |-> IF storage = NULL THEN "close_null" ELSE "close",
                         status |-> VDB_OK,
                         meta |-> IF storage = NULL \/ fault = "none"
                                  THEN VDB_OK ELSE VDB_ERROR_IO]
              /\ life' = IF storage = NULL THEN life
                         ELSE IF life = "created" /\ fault = "none" THEN "closed"
                         ELSE "other"
    /\ arg' = NULL
    /\ UNCHANGED << durable, pc, item, acked, faulted, pre, crash, recs, rec1,
                    walDirty, segDirty, origin, collection,
                    vector >>

\* The process dies: its memory and descriptors are gone, the files stay as
\* the system calls made so far left them.
Crash ==
    /\ storage # NULL
    /\ calls.mishaps < MaxMishaps
    /\ storage' = NULL
    /\ fds' = {}
    /\ pc' = "idle"
    /\ item' = NULL
    /\ ret' = [op |-> "crash", status |-> VDB_OK, meta |-> VDB_OK]
    /\ crash' = [pc |-> pc, item |-> item]
    /\ recs' = 0
    /\ faulted' = (faulted \/ pc # "idle")
    /\ life' = "other"
    /\ calls' = [calls EXCEPT !.mishaps = @ + 1]
    /\ arg' = NULL
    /\ fdlog' = NoFds
    /\ UNCHANGED << fs, durable, acked, pre, rec1, walDirty, segDirty, origin,
                    collection,
                    vector >>

(* ----------------------------------------------------------------------- *)
(* append, one system call at a time                                       *)
(* ----------------------------------------------------------------------- *)
\* The checks of append with the id looked at before the dimension.
append_check_id_first(st, it) ==
    IF st = NULL \/ it = NULL THEN VDB_ERROR_INVALID_ARGUMENT
    ELSE IF ~vdb_id_is_valid(it.id) THEN VDB_ERROR_INVALID_ARGUMENT
    ELSE IF it.vector.dim # st.dim THEN VDB_ERROR_DIMENSION_MISMATCH
    ELSE VDB_OK

\* The checks of append as the comment in storage.h words them: a dimension
\* mismatch is an invalid argument.
append_check_as_documented(st, it) ==
    IF st = NULL \/ it = NULL THEN VDB_ERROR_INVALID_ARGUMENT
    ELSE IF it.vector.dim # st.dim THEN VDB_ERROR_INVALID_ARGUMENT
    ELSE IF ~vdb_id_is_valid(it.id) THEN VDB_ERROR_INVALID_ARGUMENT
    ELSE VDB_OK

\* The checks vdb_storage_append makes before any I/O.
append_check(st, it) ==
    IF st = NULL \/ it = NULL THEN VDB_ERROR_INVALID_ARGUMENT
    ELSE IF it.vector.dim # st.dim THEN VDB_ERROR_DIMENSION_MISMATCH
    ELSE IF ~vdb_id_is_valid(it.id) THEN VDB_ERROR_INVALID_ARGUMENT
    ELSE VDB_OK

\* An order of the steps in which the segment writes follow the WAL writes
\* at once, the log not being fsynced.
NextStepUnsynced(step, it) ==
    CASE step = "wal_header" -> "wal_id"
      [] step = "wal_id" -> "wal_vector"
      [] step = "wal_vector" ->
            IF MetadataLen(it) > 0 THEN "wal_metadata" ELSE "emb_write"
      [] step = "wal_metadata" -> "emb_write"
      [] step = "wal_fsync" -> "emb_write"
      [] step = "emb_write" -> "ids_write"
      [] step = "ids_write" -> "mdlen_write"
      [] step = "mdlen_write" ->
            IF MetadataLen(it) > 0 THEN "md_write" ELSE "fsync_emb"
      [] step = "md_write" -> "fsync_emb"
      [] step = "fsync_emb" -> "fsync_ids"
      [] step = "fsync_ids" -> "fsync_md"
      [] step = "fsync_md" -> "count_inc"
      [] step = "count_inc" -> "wal_truncate"
      [] OTHER -> "idle"

\* An order of the steps in which the count is incremented as soon as the
\* segments are written, before their fsyncs.
NextStepCountEarly(step, it) ==
    CASE step = "wal_header" -> "wal_id"
      [] step = "wal_id" -> "wal_vector"
      [] step = "wal_vector" ->
            IF MetadataLen(it) > 0 THEN "wal_metadata" ELSE "wal_fsync"
      [] step = "wal_metadata" -> "wal_fsync"
      [] step = "wal_fsync" -> "emb_write"
      [] step = "emb_write" -> "ids_write"
      [] step = "ids_write" -> "mdlen_write"
      [] step = "mdlen_write" ->
            IF MetadataLen(it) > 0 THEN "md_write" ELSE "count_inc"
      [] step = "md_write" -> "count_inc"
      [] step = "count_inc" -> "fsync_emb"
      [] step = "fsync_emb" -> "fsync_ids"
      [] step = "fsync_ids" -> "fsync_md"
      [] step = "fsync_md" -> "wal_truncate"
      [] OTHER -> "idle"

\* The order of the system calls of write_wal_record and of
\* vdb_storage_append after it: the step that follows a step that worked.
NextStep(step, it) ==
    CASE step = "wal_header" -> "wal_id"
      [] step = "wal_id" -> "wal_vector"
      [] step = "wal_vector" ->
            IF MetadataLen(it) > 0 THEN "wal_metadata" ELSE "wal_fsync"
      [] step = "wal_metadata" -> "wal_fsync"
      [] step = "wal_fsync" -> "emb_write"
      [] step = "emb_write" -> "ids_write"
      [] step = "ids_write" -> "mdlen_write"
      [] step = "mdlen_write" ->
            IF MetadataLen(it) > 0 THEN "md_write" ELSE "fsync_emb"
      [] step = "md_write" -> "fsync_emb"
      [] step = "fsync_emb" -> "fsync_ids"
      [] step = "fsync_ids" -> "fsync_md"
      [] step = "fsync_md" -> "count_inc"
      [] step = "count_inc" -> "wal_truncate"
      [] OTHER -> "idle"

\* write(fd, buf, n) returns n, or fails having appended nothing or the
\* first half of buf.
WriteOutcomes(n) == {n, n \div 2, 0}

\* The steps of append that write or fsync the WAL, and those that write or
\* fsync a segment.
WalSteps == {"wal_header", "wal_id", "wal_vector", "wal_metadata", "wal_fsync"}
SegmentSteps ==
    {"emb_write", "ids_write", "mdlen_write", "md_write",
     "fsync_emb", "fsync_ids", "fsync_md"}

\* vdb_storage_append returns status.
AppendReturns(status) ==
    /\ pc' = "idle"
    /\ item' = NULL
    /\ ret' = [op |-> "append", status |-> status, meta |-> VDB_OK]
    /\ acked' = IF status = VDB_OK THEN Append(acked, item) ELSE acked
    /\ faulted' = (faulted \/ status # VDB_OK)
    /\ walDirty' = (walDirty \/ status # VDB_OK)
    /\ segDirty' = (segDirty \/ (status # VDB_OK /\ pc \in SegmentSteps))

\* One write() of the executing append: buf goes to the end of file (all
\* four descriptors are O_APPEND); anything but a full write is an IOError.
WriteStep(step, file, buf) ==
    /\ pc = step
    /\ \E w \in WriteOutcomes(Len(buf)) :
          /\ FaultCounts(w # Len(buf), TRUE)
          /\ calls' = [calls EXCEPT !.mishaps = @ + Cost(w # Len(buf))]
          /\ fs' = [fs EXCEPT ![file] = @ \o SubSeq(buf, 1, w)]
          /\ IF w = Len(buf)
             THEN /\ pc' = NextStep(step, item)
                  /\ UNCHANGED << item, ret, acked, faulted, walDirty, segDirty >>
             ELSE AppendReturns(VDB_ERROR_IO)
    /\ UNCHANGED << fds, durable, storage, pre, crash, recs, rec1, life, arg,
                    origin, fdlog, collection,
                    vector >>

\* One fsync() of the executing append.
FsyncStep(step, file) ==
    /\ pc = step
    /\ \E ok \in BOOLEAN :
          /\ FaultCounts(~ok, TRUE)
          /\ calls' = [calls EXCEPT !.mishaps = @ + Cost(~ok)]
          /\ IF ok
             THEN /\ durable' = [durable EXCEPT ![file] = Len(fs[file])]
                  /\ pc' = NextStep(step, item)
                  /\ UNCHANGED << item, ret, acked, faulted, walDirty, segDirty >>
             ELSE /\ AppendReturns(VDB_ERROR_IO)
                  /\ UNCHANGED durable
    /\ UNCHANGED << fs, fds, storage, pre, crash, recs, rec1, life, arg,
                    origin, fdlog, collection,
                    vector >>

\* The call, up to the first system call.
AppendCall ==
    /\ pc = "idle"
    /\ calls.made < MaxCalls
    /\ calls' = [calls EXCEPT !.made = @ + 1]
    /\ \E it \in Items :
          \E status \in {append_check(storage, it)} :
              /\ arg' = it
              /\ IF status = VDB_OK
                 THEN /\ pc' = "wal_header"
                      /\ item' = it
                      /\ pre' = Snapshot(fs, storage.count)
                      /\ crash' = NoCrash
                      /\ recs' = 0
                      /\ UNCHANGED ret
                 ELSE /\ ret' = [op |-> "append", status |-> status,
                                 meta |-> VDB_OK]
                      /\ UNCHANGED << pc, item, pre, crash, recs >>
    /\ UNCHANGED << fs, fds, durable, storage, acked, faulted, rec1, life,
                    walDirty, segDirty, origin, fdlog, collection,
                    vector >>

WalWriteHeader == WriteStep("wal_header", "wal_log", WalHeader(item))

WalWriteId == WriteStep("wal_id", "wal_log", WalIdBytes(item))

WalWriteVector ==
    WriteStep("wal_vector", "wal_log", VectorBytes(item, item.vector.dim))

WalWriteMetadata == WriteStep("wal_metadata", "wal_log", MetadataBytes(item))

\* An fsync of the log whose result is not looked at.
WalFsyncUnchecked ==
    /\ pc = "wal_fsync"
    /\ \E ok \in BOOLEAN :
          /\ FaultCounts(~ok, TRUE)
          /\ calls' = [calls EXCEPT !.mishaps = @ + Cost(~ok)]
          /\ durable' = IF ok THEN [durable EXCEPT !.wal_log = Len(fs.wal_log)]
                        ELSE durable
    /\ pc' = NextStep("wal_fsync", item)
    /\ UNCHANGED << fs, fds, storage, item, ret, acked, faulted, pre, crash,
                    recs, rec1, life, walDirty, segDirty, arg, origin,
                    fdlog, collection,
                    vector >>

WalFsync == FsyncStep("wal_fsync", "wal_log")

SegWriteEmbedding ==
    WriteStep("emb_write", "embeddings_seg", VectorBytes(item, storage.dim))

SegWriteId == WriteStep("ids_write", "ids_seg", PaddedId(item))

SegWriteMetadataLen ==
    WriteStep("mdlen_write", "metadata_seg", U32LE(MetadataLen(item)))

SegWriteMetadata == WriteStep("md_write", "metadata_seg", MetadataBytes(item))

SegFsyncEmbeddings == FsyncStep("fsync_emb", "embeddings_seg")

SegFsyncIds == FsyncStep("fsync_ids", "ids_seg")

SegFsyncMetadata == FsyncStep("fsync_md", "metadata_seg")

\* storage->count++
CountIncrement ==
    /\ pc = "count_inc"
    /\ storage' = [storage EXCEPT !.count = @ + 1]
    /\ pc' = NextStep("count_inc", item)
    /\ UNCHANGED << fs, fds, durable, item, ret, acked, faulted, pre, crash,
                    recs, rec1, life, walDirty, segDirty, calls, arg, origin,
                    fdlog, collection,
                    vector >>

\* A truncate of the log whose failure makes append fail.
WalTruncateFatal ==
    /\ pc = "wal_truncate"
    /\ \E ok \in BOOLEAN :
          /\ FaultCounts(~ok, TRUE)
          /\ calls' = [calls EXCEPT !.mishaps = @ + Cost(~ok)]
          /\ IF ok
             THEN /\ fs' = [fs EXCEPT !.wal_log = << >>]
                  /\ durable' = [durable EXCEPT !.wal_log = 0]
                  /\ walDirty' = walDirty
                  /\ segDirty' = segDirty
                  /\ ret' = [op |-> "append", status |-> VDB_OK, meta |-> VDB_OK]
                  /\ acked' = Append(acked, item)
                  /\ faulted' = faulted
             ELSE /\ UNCHANGED << fs, durable, acked >>
                  /\ walDirty' = TRUE
                  /\ segDirty' = segDirty
                  /\ ret' = [op |-> "append", status |-> VDB_ERROR_IO,
                             meta |-> VDB_OK]
                  /\ faulted' = TRUE
    /\ pc' = "idle"
    /\ item' = NULL
    /\ UNCHANGED << fds, storage, pre, crash, recs, rec1, life, arg,
                    origin, fdlog, collection,
                    vector >>

\* ftruncate(wal_fd, 0), whose failure is ignored, and the return of VDB_OK.
WalTruncate ==
    /\ pc = "wal_truncate"
    /\ \E ok \in BOOLEAN :
          /\ FaultCounts(~ok, TRUE)
          /\ calls' = [calls EXCEPT !.mishaps = @ + Cost(~ok)]
          /\ IF ok
             THEN /\ fs' = [fs EXCEPT !.wal_log = << >>]
                  /\ durable' = [durable EXCEPT !.wal_log = 0]
                  /\ walDirty' = walDirty
                  /\ segDirty' = segDirty
             ELSE /\ UNCHANGED << fs, durable >>
                  /\ walDirty' = TRUE
                  /\ segDirty' = segDirty
    /\ pc' = "idle"
    /\ item' = NULL
    /\ ret' = [op |-> "append", status |-> VDB_OK, meta |-> VDB_OK]
    /\ acked' = Append(acked, item)
    /\ UNCHANGED << fds, storage, faulted, pre, crash, recs, rec1, life, arg,
                    origin, fdlog, collection,
                    vector >>

Next ==
    \/ Create
    \/ Open
    \/ Close
    \/ Crash
    \/ AppendCall
    \/ WalWriteHeader
    \/ WalWriteId
    \/ WalWriteVector
    \/ WalWriteMetadata
    \/ WalFsync
    \/ SegWriteEmbedding
    \/ SegWriteId
    \/ SegWriteMetadataLen
    \/ SegWriteMetadata
    \/ SegFsyncEmbeddings
    \/ SegFsyncIds
    \/ SegFsyncMetadata
    \/ CountIncrement
    \/ WalTruncate

Spec == Init /\ [][Next]_vars

(* ----------------------------------------------------------------------- *)
(* SegmentAppendLog.iterate                                                *)
(* ----------------------------------------------------------------------- *)
\* vdb_storage_iterate is declared in storage.h and has no body in
\* storage.c; this is the iterate of the specification: one id slot, one
\* embedding stride and one metadata record per round, from offset 0, until
\* the three files end together.  e, i and m are the bytes consumed of the
\* embeddings, ids and metadata segments, out the items handed to the
\* visitor (which never asks to stop).
RECURSIVE IterateFrom(_, _, _, _, _, _)
IterateFrom(f, dim, e, i, m, out) ==
    IF e = Len(f.embeddings_seg) /\ i = Len(f.ids_seg)
       /\ m = Len(f.metadata_seg)
    THEN [status |-> VDB_OK, items |-> out]
    ELSE IF i + VDB_ID_MAX_LEN > Len(f.ids_seg)
            \/ e + dim * SizeofFloat > Len(f.embeddings_seg)
            \/ m + SizeofU32 > Len(f.metadata_seg)
    THEN [status |-> VDB_ERROR_IO, items |-> out]
    ELSE IF m + SizeofU32 + ReadU32LE(f.metadata_seg, m + 1)
            > Len(f.metadata_seg)
    THEN [status |-> VDB_ERROR_IO, items |-> out]
    ELSE IterateFrom(f, dim, e + dim * SizeofFloat, i + VDB_ID_MAX_LEN,
             m + SizeofU32 + ReadU32LE(f.metadata_seg, m + 1),
             Append(out,
                 [id |-> SubSeq(f.ids_seg, i + 1, i + VDB_ID_MAX_LEN),
                  vector |->
                      [dim |-> dim,
                       data |-> [k \in 1..dim |->
                                    ReadU32LE(f.embeddings_seg,
                                              e + SizeofFloat * (k - 1) + 1)]],
                  metadata |->
                      SubSeq(f.metadata_seg, m + SizeofU32 + 1,
                             m + SizeofU32
                             + ReadU32LE(f.metadata_seg, m + 1))]))

vdb_storage_iterate(f, st) ==
    IF st = NULL
    THEN [status |-> VDB_ERROR_INVALID_ARGUMENT, items |-> << >>]
    ELSE IterateFrom(f, st.dim, 0, 0, 0, << >>)

(* ----------------------------------------------------------------------- *)
(* Properties                                                              *)
(* ----------------------------------------------------------------------- *)
\* The three segments hold what they held when the last append began,
\* followed by the records of it.
AppliedOnce(it) ==
    /\ fs.embeddings_seg = pre.embeddings_seg \o VectorBytes(it, it.vector.dim)
    /\ fs.ids_seg = pre.ids_seg \o PaddedId(it)
    /\ fs.metadata_seg = pre.metadata_seg \o MetadataRecord(it)

\* The three segments hold what they held when the last append began.
NotApplied ==
    /\ fs.embeddings_seg = pre.embeddings_seg
    /\ fs.ids_seg = pre.ids_seg
    /\ fs.metadata_seg = pre.metadata_seg

\* A handle is open and no call is executing.
HandleIdle == storage # NULL /\ pc = "idle"

\* C1: when the process died after an append's WAL record was written and
\* fsynced and before any segment write of it, every open that follows gives
\* a handle whose segments hold the item exactly once more than before the
\* append, whose count includes it, and an empty WAL.
C1_CrashReplay ==
    (HandleIdle /\ crash.pc = "emb_write" /\ recs >= 1) =>
        /\ AppliedOnce(crash.item)
        /\ storage.count = pre.count + 1
        /\ fs.wal_log = << >>

\* C2: when the process died after the three segment fsyncs of an append and
\* before its WAL truncate, every open that follows leaves exactly one copy
\* of the item in each segment and an empty WAL, and the segments, the count
\* and the WAL after any later open are those after the first one.
C2_RecoveryIdempotent ==
    (HandleIdle /\ crash.pc \in {"count_inc", "wal_truncate"} /\ recs >= 1) =>
        /\ AppliedOnce(crash.item)
        /\ fs.wal_log = << >>
        /\ Snapshot(fs, storage.count) = rec1

\* Two recoveries ran after a death between the segment fsyncs and the WAL
\* truncate.
C2_Witness ==
    HandleIdle /\ crash.pc = "wal_truncate" /\ recs = 2

\* Some segment file differs between the two states of a step.
SegmentWritten ==
    \/ fs'.embeddings_seg # fs.embeddings_seg
    \/ fs'.ids_seg # fs.ids_seg
    \/ fs'.metadata_seg # fs.metadata_seg

\* C3: every step that writes to a segment file is a step of an executing
\* append whose complete WAL record is the tail of the log and is covered by
\* an fsync of the log.
C3_WalFirst ==
    [][SegmentWritten =>
          /\ pc \in {"emb_write", "ids_write", "mdlen_write", "md_write"}
          /\ fs.wal_log = pre.wal_log \o WalRecord(item)
          /\ durable.wal_log = Len(fs.wal_log)]_vars

\* An append has written its embedding and is about to write its id.
C3_Witness ==
    pc = "ids_write" /\ fs.embeddings_seg # pre.embeddings_seg

\* The C string held by a char array.
CString(a) == SubSeq(a, 1, strlen(a))

\* The item y handed to the visitor has the id, vector and metadata of the
\* appended item it.
SameItem(y, it) ==
    /\ CString(y.id) = CString(it.id)
    /\ y.vector.dim = it.vector.dim
    /\ \A k \in 1..it.vector.dim : y.vector.data[k] = it.vector.data[k]
    /\ y.metadata = (IF it.metadata = NULLSTR THEN << >> ELSE it.metadata)

\* What iterate gives is the appended items, in their order.
Yields(r, items) ==
    /\ r.status = VDB_OK
    /\ Len(r.items) = Len(items)
    /\ \A k \in 1..Len(items) : SameItem(r.items[k], items[k])

\* C4: while every append that did I/O has returned VDB_OK, the ids and
\* embeddings segments hold as many records as appends returned VDB_OK and
\* iterate yields exactly those items in the order of their appends, each
\* with the id, vector and metadata that was appended.
C4_IterateYieldsAppended ==
    (HandleIdle /\ ~faulted) =>
        /\ Len(fs.ids_seg) = Len(acked) * VDB_ID_MAX_LEN
        /\ Len(fs.embeddings_seg) = Len(acked) * storage.dim * SizeofFloat
        /\ Yields(vdb_storage_iterate(fs, storage), acked)

\* Two different items were appended and nothing failed.
C4_Witness ==
    HandleIdle /\ ~faulted /\ Len(acked) = 2 /\ acked[1] # acked[2]

\* C5: on the handle create gave, between calls, the count is the number of
\* appends that returned VDB_OK; after a close of it that wrote
\* collection.meta the count in the file is that number; and so is the count
\* of the handle the next open gives.
C5_CountIsAppends ==
    /\ (life = "created" /\ pc = "idle") => storage.count = Len(acked)
    /\ life = "closed" =>
          /\ ScanMeta(fs.collection_meta).n = 3
          /\ ScanMeta(fs.collection_meta).count = Len(acked)
    /\ (life = "reopened" /\ pc = "idle") => storage.count = Len(acked)

\* Two appends returned VDB_OK, the handle was closed and opened again.
C5_Witness ==
    life = "reopened" /\ pc = "idle" /\ Len(acked) = 2

\* The number of complete length-prefixed records of a metadata segment,
\* from offset m on.
RECURSIVE MetadataRecords(_, _)
MetadataRecords(md, m) ==
    IF m + SizeofU32 > Len(md) THEN 0
    ELSE IF m + SizeofU32 + ReadU32LE(md, m + 1) > Len(md) THEN 0
    ELSE 1 + MetadataRecords(md, m + SizeofU32 + ReadU32LE(md, m + 1))

\* The count and the dimension of collection.meta against the three
\* segments.
CountMatches(meta) ==
    /\ meta.n = 3
    /\ meta.count * VDB_ID_MAX_LEN = Len(fs.ids_seg)
    /\ meta.count = MetadataRecords(fs.metadata_seg, 0)
    /\ meta.count * meta.dim * SizeofFloat = Len(fs.embeddings_seg)

\* C6: after a close that wrote collection.meta, following a create and any
\* appends (failed ones too), the count in collection.meta is the number of
\* 64-byte records of the ids segment, the number of length-prefixed records
\* of the metadata segment, and the embeddings length over dim * 4.
C6_CountMatchesSegments ==
    life = "closed" => CountMatches(ScanMeta(fs.collection_meta))

C8_WalAtMostOneRecord ==
    Len(fs.wal_log) >= SizeofWalHeader =>
        Len(fs.wal_log) <= WalRecordLen(fs.wal_log)

\* The system call of this step of the executing append fails (the process
\* lives on).
StepFails == calls'.mishaps > calls.mishaps /\ storage' # NULL

\* This step makes append return VDB_ERROR_IO.
ReturnsIOError ==
    /\ pc' = "idle"
    /\ ret' = [op |-> "append", status |-> VDB_ERROR_IO, meta |-> VDB_OK]

\* C9: a failing WAL or segment write or fsync makes append return
\* VDB_ERROR_IO with the count the handle had before the call; and the count
\* of a handle changes only by one, in an append whose three segments hold
\* its records and are covered by their fsyncs.
C9_FailureKeepsCount ==
    [][/\ (pc \in WalSteps \cup SegmentSteps /\ StepFails) =>
              (ReturnsIOError /\ storage'.count = pre.count)
       /\ (storage # NULL /\ storage' # NULL /\ storage'.count # storage.count) =>
              /\ storage'.count = storage.count + 1
              /\ item # NULL
              /\ AppliedOnce(item)
              /\ durable.embeddings_seg = Len(fs.embeddings_seg)
              /\ durable.ids_seg = Len(fs.ids_seg)
              /\ durable.metadata_seg = Len(fs.metadata_seg)]_vars

\* An append returned VDB_ERROR_IO after its embedding was written.
C9_Witness ==
    /\ HandleIdle /\ ret.op = "append" /\ ret.status = VDB_ERROR_IO
    /\ fs.embeddings_seg # pre.embeddings_seg
    /\ storage.count = pre.count

\* C10: a failing write or fsync of the WAL record makes append return
\* VDB_ERROR_IO, the three segment files being what they were when the call
\* began, before and after the failing step.
C10_WalFailureLeavesSegments ==
    [][(pc \in WalSteps /\ StepFails) =>
          /\ ReturnsIOError
          /\ NotApplied
          /\ ~SegmentWritten]_vars

\* An append returned VDB_ERROR_IO having written a part of its WAL header.
C10_Witness ==
    /\ HandleIdle /\ ret.op = "append" /\ ret.status = VDB_ERROR_IO
    /\ Len(fs.wal_log) > Len(pre.wal_log)
    /\ Len(fs.wal_log) < Len(pre.wal_log) + SizeofWalHeader
    /\ NotApplied

\* This step is a call of vdb_storage_append, of vdb_storage_create, of
\* vdb_storage_open, of vdb_storage_close; arg' is what the call was given.
AppendCalled ==
    /\ pc = "idle"
    /\ calls'.made > calls.made
    /\ (pc' = "wal_header" \/ (pc' = "idle" /\ ret'.op = "append"))

CreateCalled ==
    pc = "idle" /\ pc' = "idle" /\ calls'.made > calls.made /\ ret'.op = "create"

OpenCalled ==
    pc = "idle" /\ pc' = "idle" /\ calls'.made > calls.made /\ ret'.op = "open"

CloseCalled ==
    /\ pc = "idle" /\ pc' = "idle" /\ calls'.made = calls.made
    /\ ret'.op \in {"close", "close_null"}

\* This step is an append call that returns status at once.
Rejected(status) ==
    /\ pc' = "idle"
    /\ ret' = [op |-> "append", status |-> status, meta |-> VDB_OK]

\* This step leaves every file, every descriptor and the handle as they are.
NothingTouched ==
    fs' = fs /\ fds' = fds /\ durable' = durable /\ storage' = storage

MismatchReturned ==
    /\ HandleIdle /\ ret.op = "append" /\ arg # NULL
    /\ arg.vector.dim # storage.dim

IdValid(id) ==
    \E n \in 1..(VDB_ID_MAX_LEN - 1) :
        /\ id[n + 1] = 0
        /\ \A k \in 1..n : id[k] >= 32 /\ id[k] <= 126

\* C13: an append call on an open handle with an item of the handle's
\* dimension whose id is empty, has no NUL within its 64 bytes, or holds a
\* non-printable char returns VDB_ERROR_INVALID_ARGUMENT at once and leaves
\* the count, the WAL and the three segments as they were.
C13_InvalidIdRejected ==
    [][(AppendCalled /\ storage # NULL /\ arg'.vector.dim = storage.dim
        /\ ~IdValid(arg'.id)) =>
          (Rejected(VDB_ERROR_INVALID_ARGUMENT) /\ NothingTouched)]_vars

\* An item whose id holds a control char was refused by a handle of its
\* dimension that holds an item already.
C13_Witness ==
    /\ HandleIdle /\ ret.op = "append"
    /\ ret.status = VDB_ERROR_INVALID_ARGUMENT
    /\ arg.vector.dim = storage.dim
    /\ arg.id[1] # 0 /\ ~IdValid(arg.id)
    /\ Len(fs.ids_seg) > 0

\* C14: when the truncate of the WAL at the end of an append fails, the call
\* returns VDB_OK all the same, the count being one more than before the
\* call and the item being once in each segment.
C14_TruncateFailureNotFatal ==
    [][(pc = "wal_truncate" /\ StepFails) =>
          /\ pc' = "idle"
          /\ ret' = [op |-> "append", status |-> VDB_OK, meta |-> VDB_OK]
          /\ acked' = Append(acked, item)
          /\ storage'.count = pre.count + 1
          /\ AppliedOnce(item)
          /\ fs' = fs]_vars

\* An append returned VDB_OK and left its record in the WAL.
C14_Witness ==
    /\ HandleIdle /\ ret.op = "append" /\ ret.status = VDB_OK
    /\ walDirty /\ fs.wal_log = pre.wal_log \o WalRecord(arg)
    /\ storage.count = pre.count + 1

\* Arguments create accepts: no null pointer, a name of 1 to 63 printable
\* chars, a dimension in 1..65536, one of the two metrics.
ValidCreateArgs(a) ==
    /\ a.base_dir # NULLSTR /\ a.name # NULLSTR /\ a.out_storage # NULL
    /\ Len(a.name) >= 1 /\ Len(a.name) < VDB_COLLECTION_NAME_MAX_LEN
    /\ \A k \in 1..Len(a.name) : a.name[k] >= 32 /\ a.name[k] <= 126
    /\ a.dim >= 1 /\ a.dim <= VDB_COLLECTION_MAX_DIM
    /\ a.metric \in {VDB_METRIC_COSINE, VDB_METRIC_EUCLIDEAN}

\* C15: a create with valid arguments for a collection whose directory
\* exists returns VDB_ERROR_ALREADY_EXISTS, gives no handle, and leaves the
\* metadata file, the segments and the WAL of the collection as they were.
C15_CreateExisting ==
    [][(CreateCalled /\ fs.dir /\ ValidCreateArgs(arg')) =>
          /\ ret'.status = VDB_ERROR_ALREADY_EXISTS
          /\ storage' = NULL
          /\ NothingTouched]_vars

\* A create was refused for a collection that holds an item.
C15_Witness ==
    /\ pc = "idle" /\ ret.op = "create"
    /\ ret.status = VDB_ERROR_ALREADY_EXISTS
    /\ storage = NULL /\ Len(fs.ids_seg) > 0

\* C16: a create with an invalid name, dimension or metric, or with a null
\* base_dir, name or output pointer, returns VDB_ERROR_INVALID_ARGUMENT,
\* gives no handle and touches no file, whether the collection directory
\* exists or not.
C16_CreateInvalid ==
    [][(CreateCalled /\ ~ValidCreateArgs(arg')) =>
          /\ ret'.status = VDB_ERROR_INVALID_ARGUMENT
          /\ storage' = NULL
          /\ NothingTouched]_vars

\* A create with dimension 0 was refused where the collection exists.
C16_Witness ==
    /\ pc = "idle" /\ ret.op = "create"
    /\ ret.status = VDB_ERROR_INVALID_ARGUMENT
    /\ fs.dir /\ arg.dim = 0

(* ----------------------------------------------------------------------- *)
(* StorageHandle.get_info                                                  *)
(* ----------------------------------------------------------------------- *)
\* vdb_storage_get_info is declared in storage.h and has no body in
\* storage.c; this is the get_info of the specification: the dimension, the
\* metric and the count of the handle.
vdb_storage_get_info(st) ==
    IF st = NULL
    THEN [status |-> VDB_ERROR_INVALID_ARGUMENT, dim |-> 0, metric |-> 0,
          count |-> 0]
    ELSE [status |-> VDB_OK, dim |-> st.dim, metric |-> st.metric,
          count |-> st.count]

\* C17: a create with valid arguments where the collection does not exist,
\* no system call failing, returns VDB_OK with a handle of count 0, writes a
\* collection.meta that reads as that dimension, that metric and count 0,
\* and leaves the three segments and the WAL existing and empty; and an open
\* that follows, no append having succeeded, gives a handle whose get_info
\* reports that dimension, that metric and count 0.
C17_CreateThenOpen ==
    [][/\ (CreateCalled /\ ~fs.dir /\ ValidCreateArgs(arg')
           /\ calls'.mishaps = calls.mishaps) =>
              /\ ret'.status = VDB_OK
              /\ vdb_storage_get_info(storage') =
                    [status |-> VDB_OK, dim |-> arg'.dim,
                     metric |-> arg'.metric, count |-> 0]
              /\ ScanMeta(fs'.collection_meta) =
                    [n |-> 3, dim |-> arg'.dim, metric |-> arg'.metric,
                     count |-> 0]
              /\ fs'.exists = FileNames
              /\ fs'.embeddings_seg = << >> /\ fs'.ids_seg = << >>
              /\ fs'.metadata_seg = << >> /\ fs'.wal_log = << >>
       /\ (OpenCalled /\ ret'.status = VDB_OK /\ origin # NULL
           /\ Len(acked) = 0) =>
              vdb_storage_get_info(storage') =
                  [status |-> VDB_OK, dim |-> origin.dim,
                   metric |-> origin.metric, count |-> 0]]_vars

\* A two-dimensional collection was created, closed and opened again.
C17_Witness ==
    /\ HandleIdle /\ ret.op = "open" /\ ret.status = VDB_OK
    /\ life = "reopened" /\ Len(acked) = 0
    /\ origin # NULL /\ storage.dim = 2

\* A collection directory that holds a collection.meta of text t.
DirWithMeta(t) ==
    [EmptyFs EXCEPT !.dir = TRUE, !.exists = {"collection.meta"},
                    !.collection_meta = t]

\* The status read_collection_meta gives for a collection.meta of text t.
MetaStatus(t) == read_collection_meta(DirWithMeta(t), FALSE).status

\* Texts whose three fields do not parse or hold a dimension outside
\* 1..65536 or a metric that is neither cosine nor euclidean.
BadMetaTexts ==
    { << >>,
      LitDimension \o DecDigits(2) \o LitNewline
          \o LitMetric \o DecInt(1) \o LitNewline,
      LitMetric \o DecInt(1) \o LitNewline
          \o LitDimension \o DecDigits(2) \o LitNewline
          \o LitCount \o DecDigits(0) \o LitNewline,
      MetaText(0, VDB_METRIC_COSINE, 0),
      MetaText(VDB_COLLECTION_MAX_DIM + 1, VDB_METRIC_COSINE, 0),
      MetaText(2, 2, 0),
      MetaText(2, -1, 0) }

\* The text is a whole collection.meta of a collection of the model.
WholeMeta(t) ==
    \E d \in 1..2, m \in {VDB_METRIC_COSINE, VDB_METRIC_EUCLIDEAN},
       c \in 0..MaxCalls : t = MetaText(d, m, c)

\* C18: an open where the collection directory or collection.meta is absent
\* returns VDB_ERROR_NOT_FOUND; an open that reads a collection.meta whose
\* three fields do not parse, or whose dimension is outside 1..65536, or
\* whose metric is neither cosine nor euclidean, returns
\* VDB_ERROR_CORRUPTED; and an open that fails gives no handle.
C18_OpenNotFoundOrCorrupted ==
    [][/\ OpenCalled =>
              /\ \A t \in BadMetaTexts : MetaStatus(t) = VDB_ERROR_CORRUPTED
              /\ MetaStatus(MetaText(VDB_COLLECTION_MAX_DIM,
                                     VDB_METRIC_EUCLIDEAN, 3)) = VDB_OK
       /\ (OpenCalled /\ (~fs.dir \/ "collection.meta" \notin fs.exists)) =>
              ret'.status = VDB_ERROR_NOT_FOUND
       /\ (OpenCalled /\ fs.dir /\ "collection.meta" \in fs.exists
           /\ ~WholeMeta(fs.collection_meta)
           /\ calls'.mishaps = calls.mishaps) =>
              ret'.status = VDB_ERROR_CORRUPTED
       /\ (OpenCalled /\ ret'.status # VDB_OK) =>
              (storage' = NULL /\ fds' = fds)]_vars

\* An open found a collection.meta cut short and returned
\* VDB_ERROR_CORRUPTED.
C18_Witness ==
    /\ pc = "idle" /\ ret.op = "open" /\ ret.status = VDB_ERROR_CORRUPTED
    /\ storage = NULL /\ Len(fs.collection_meta) > 0

\* The four descriptors of a handle.
HandleFds(st) == {st.embeddings_fd, st.ids_fd, st.metadata_fd, st.wal_fd}

\* C19: a close of an open handle sets the caller's pointer to NULL and
\* releases the four descriptors of the handle, and, when its write works,
\* leaves a collection.meta that reads as the dimension, the metric and the
\* count of the handle, the segments and the WAL being untouched; a close of
\* a NULL pointer, such as a second close, changes no file and closes no
\* descriptor.
C19_CloseIdempotent ==
    [][/\ (CloseCalled /\ storage # NULL) =>
              /\ ret'.op = "close"
              /\ storage' = NULL
              /\ Cardinality(HandleFds(storage)) = 4
              /\ HandleFds(storage) \subseteq fds
              /\ fds' = fds \ HandleFds(storage)
              /\ Snapshot(fs', 0) = Snapshot(fs, 0)
              /\ calls'.mishaps = calls.mishaps =>
                    ScanMeta(fs'.collection_meta) =
                        [n |-> 3, dim |-> storage.dim,
                         metric |-> storage.metric, count |-> storage.count]
       /\ (CloseCalled /\ storage = NULL) =>
              (ret'.op = "close_null" /\ NothingTouched)]_vars

\* A handle that held an item was closed, and closed again.
C19_Witness ==
    /\ pc = "idle" /\ storage = NULL /\ ret.op = "close_null"
    /\ life = "closed" /\ Len(acked) >= 1

\* C20: a close leaves the caller without a handle; an append without a
\* handle returns VDB_ERROR_INVALID_ARGUMENT and touches nothing; while there
\* is no handle, files change and a handle appears only by a new create or
\* open call.
C20_ClosedIsTerminal ==
    [][/\ (CloseCalled /\ storage # NULL) => storage' = NULL
       /\ (AppendCalled /\ storage = NULL) =>
              (Rejected(VDB_ERROR_INVALID_ARGUMENT) /\ NothingTouched)
       /\ (storage = NULL /\ (storage' # NULL \/ fs' # fs)) =>
              (CreateCalled \/ OpenCalled)
       /\ (storage = NULL /\ storage' # NULL) => ret'.status = VDB_OK]_vars

\* An append was tried after the handle was closed.
C20_Witness ==
    /\ pc = "idle" /\ storage = NULL /\ life = "closed"
    /\ ret.op = "append" /\ ret.status = VDB_ERROR_INVALID_ARGUMENT
    /\ arg # NULL /\ Len(acked) >= 1

\* A system call of this step fails and the process lives on.
CallFails == calls'.mishaps > calls.mishaps /\ ret'.op # "crash"

\* C21: a step of create, open, append or close in which a system call fails
\* ends the call with a status other than VDB_OK, unless the call that fails
\* is the truncate of the WAL at the end of an append; so a close whose write
\* of collection.meta fails does not look successful to its caller.
C21_IOFailureReported ==
    [][(CallFails /\ pc # "wal_truncate") =>
          (pc' = "idle" /\ ret'.status # VDB_OK)]_vars

\* The elements of a sequence, and a sequence that holds none of them twice.
Range(q) == {q[i] : i \in 1..Len(q)}
NoRepeat(q) == \A i, j \in 1..Len(q) : q[i] = q[j] => i = j

\* C22: when a create has returned an error, the descriptors it gave to
\* close() are exactly those its open() calls returned, each one once,
\* whichever of the four opens or the recovery failed; the process holds no
\* descriptor and the caller no handle.
C22_CreateErrorClosesAll ==
    (ret.op = "create" /\ ret.status # VDB_OK) =>
        /\ Range(fdlog.closed) = Range(fdlog.opened)
        /\ NoRepeat(fdlog.closed)
        /\ NoRepeat(fdlog.opened)
        /\ fds = {}
        /\ storage = NULL

\* A create failed at the open of the WAL, three descriptors being open.
C22_Witness ==
    /\ ret.op = "create" /\ ret.status = VDB_ERROR_IO
    /\ Len(fdlog.opened) = 3 /\ Len(fdlog.closed) = 3

\* C23: once a create has succeeded, whatever appends (failed ones too),
\* closes and opens follow, every handle holds the dimension and the metric
\* the create was given, and so does collection.meta whenever it holds its
\* three fields; the file holds them while the handle of the create is open
\* and after a close of it that wrote the file.
C23_DimMetricImmutable ==
    origin # NULL =>
        /\ storage # NULL =>
              (storage.dim = origin.dim /\ storage.metric = origin.metric)
        /\ ScanMeta(fs.collection_meta).n = 3 =>
              /\ ScanMeta(fs.collection_meta).dim = origin.dim
              /\ ScanMeta(fs.collection_meta).metric = origin.metric
        /\ life \in {"created", "closed"} =>
              ScanMeta(fs.collection_meta).n = 3

\* A euclidean collection was closed after a successful and a failed append:
\* the count in collection.meta is no longer the 0 of the create.
C23_Witness ==
    /\ origin # NULL /\ origin.metric = VDB_METRIC_EUCLIDEAN
    /\ life = "closed" /\ Len(acked) >= 1 /\ faulted
    /\ ScanMeta(fs.collection_meta).count >= 1

(* ----------------------------------------------------------------------- *)
(* Functions under their own specifications                                *)
(* ----------------------------------------------------------------------- *)
\* A specification of one function keeps its inputs in arg, its result in
\* ret and its files in fs; of the other variables, those of the storage
\* layer stay as Init has them.
RestInit ==
    /\ fds = {}
    /\ durable = [embeddings_seg |-> 0, ids_seg |-> 0, metadata_seg |-> 0,
                  wal_log |-> 0]
    /\ storage = NULL
    /\ pc = "idle"
    /\ item = NULL
    /\ acked = << >>
    /\ faulted = FALSE
    /\ pre = Snapshot(EmptyFs, 0)
    /\ crash = NoCrash
    /\ recs = 0
    /\ rec1 = Snapshot(EmptyFs, 0)
    /\ life = "none"
    /\ walDirty = FALSE
    /\ segDirty = FALSE
    /\ calls = [made |-> 0, mishaps |-> 0]
    /\ origin = NULL
    /\ fdlog = NoFds
    /\ vector = [dim |-> 0, data |-> NULL]

RestUnchanged ==
    UNCHANGED << fds, durable, storage, pc, item, acked, faulted, pre, crash,
                 recs, rec1, life, walDirty, segDirty, calls, origin, fdlog,
                 vector >>

(* ----------------------------------------------------------------------- *)
(* write_collection_meta and read_collection_meta                          *)
(* ----------------------------------------------------------------------- *)
\* Dimensions and counts of one, two and more digits, up to the largest
\* dimension and the largest count the model's integers hold.
MetaDims == {1, 10, 255, 65535, VDB_COLLECTION_MAX_DIM}
MetaCounts == {0, 9, 10, 2147483647}

\* The collection directory exists; collection.meta does not.
MetaInit ==
    /\ fs = [EmptyFs EXCEPT !.dir = TRUE]
    /\ arg = NULL
    /\ ret = [op |-> "none", status |-> VDB_OK]
    /\ collection = NULL
    /\ RestInit

\* write_collection_meta(path, dim, metric, count); arg keeps what it was
\* given and the status it returned.
MetaWrite ==
    /\ \E d \in MetaDims, m \in {VDB_METRIC_COSINE, VDB_METRIC_EUCLIDEAN},
          c \in MetaCounts, fault \in MetaFaults :
          \E kept \in Kept(fault) :
          \E r \in {write_collection_meta(fs, d, m, c, fault, kept)} :
              /\ fs' = r.fs
              /\ arg' = [dim |-> d, metric |-> m, count |-> c,
                         status |-> r.status]
              /\ ret' = [op |-> "write", status |-> r.status]
    /\ UNCHANGED collection
    /\ RestUnchanged

\* read_collection_meta(path, &dim, &metric, &count); ret keeps the status
\* and the three values.
MetaRead ==
    /\ \E r \in {read_collection_meta(fs, FALSE)} :
          ret' = [op |-> "read", status |-> r.status, dim |-> r.dim,
                  metric |-> r.metric, count |-> r.count]
    /\ UNCHANGED << fs, arg >>
    /\ UNCHANGED collection
    /\ RestUnchanged

MetaNext ==
    \/ MetaWrite
    \/ MetaRead

MetaSpec == MetaInit /\ [][MetaNext]_vars

\* C24: after a write_collection_meta that returned VDB_OK, collection.meta
\* holds the three lines of that write and nothing of what it held before,
\* and a read_collection_meta returns VDB_OK with the dimension, the metric
\* and the count that were written.
C24_MetaRoundTrip ==
    (arg # NULL /\ arg.status = VDB_OK) =>
        /\ fs.collection_meta = MetaText(arg.dim, arg.metric, arg.count)
        /\ ret.op = "read" =>
              ret = [op |-> "read", status |-> VDB_OK, dim |-> arg.dim,
                     metric |-> arg.metric, count |-> arg.count]

\* The largest dimension and count were written and read back.
C24_Witness ==
    /\ arg # NULL /\ arg.status = VDB_OK /\ ret.op = "read"
    /\ arg.dim = VDB_COLLECTION_MAX_DIM /\ arg.metric = VDB_METRIC_EUCLIDEAN
    /\ arg.count = 2147483647
    /\ ret.status = VDB_OK /\ ret.count = 2147483647

(* ----------------------------------------------------------------------- *)
(* create_directory on a tree of directories and files                     *)
(* ----------------------------------------------------------------------- *)
\* A path is a string, a node of the tree the sequence of the names on the
\* way to it from the root, which is also the working directory.  "." and
\* ".." and symbolic links are left out.
Slash == 47

\* The names of a path: the runs of chars between slashes.
RECURSIVE SplitPath(_, _, _, _)
SplitPath(path, i, name, names) ==
    IF i > Len(path)
    THEN IF name = << >> THEN names ELSE Append(names, name)
    ELSE IF path[i] = Slash
    THEN SplitPath(path, i + 1, << >>,
                   IF name = << >> THEN names ELSE Append(names, name))
    ELSE SplitPath(path, i + 1, Append(name, path[i]), names)

Components(path) == SplitPath(path, 1, << >>, << >>)

\* The fs of this specification: the directories and the regular files
\* below the root.
IsDir(t, node) == node = << >> \/ node \in t.dirs

\* Path resolution up to the parent of a node: 0, or the errno of the first
\* name on the way that is no directory.
RECURSIVE WalkFrom(_, _, _)
WalkFrom(t, node, k) ==
    IF k >= Len(node) THEN "0"
    ELSE IF IsDir(t, SubSeq(node, 1, k)) THEN WalkFrom(t, node, k + 1)
    ELSE IF SubSeq(node, 1, k) \in t.files THEN "ENOTDIR"
    ELSE "ENOENT"

Walk(t, node) == WalkFrom(t, node, 1)

\* stat(path, &st): "dir" or "file" when it returns 0 (S_ISDIR or not), else
\* the errno.  A path that ends in a slash names a directory only.
stat(t, path) ==
    IF path = << >> THEN "ENOENT"
    ELSE IF Walk(t, Components(path)) # "0" THEN Walk(t, Components(path))
    ELSE IF IsDir(t, Components(path)) THEN "dir"
    ELSE IF Components(path) \in t.files
    THEN IF path[Len(path)] = Slash THEN "ENOTDIR" ELSE "file"
    ELSE "ENOENT"

\* mkdir(path, 0755): [errno, tree], errno "0" when the directory was made.
\* denied are the nodes the process may not make.
mkdir(t, path, denied) ==
    IF path = << >> THEN [errno |-> "ENOENT", tree |-> t]
    ELSE IF Walk(t, Components(path)) # "0"
    THEN [errno |-> Walk(t, Components(path)), tree |-> t]
    ELSE IF IsDir(t, Components(path)) \/ Components(path) \in t.files
    THEN [errno |-> "EEXIST", tree |-> t]
    ELSE IF Components(path) \in denied
    THEN [errno |-> "EACCES", tree |-> t]
    ELSE [errno |-> "0",
          tree |-> [t EXCEPT !.dirs = @ \cup {Components(path)}]]

\* strrchr(s, c): the index of the last c in s, 0 for NULL.
RECURSIVE strrchrFrom(_, _, _)
strrchrFrom(s, c, i) ==
    IF i = 0 THEN 0
    ELSE IF s[i] = c THEN i
    ELSE strrchrFrom(s, c, i - 1)

strrchr(s, c) == strrchrFrom(s, c, Len(s))

\* create_directory after its recursive call on the parent returned r: the
\* status of the parent if it failed, else the second mkdir.
RetryMkdir(r, path, denied) ==
    IF r.status # VDB_OK THEN r
    ELSE IF mkdir(r.tree, path, denied).errno = "0"
    THEN [status |-> VDB_OK, tree |-> mkdir(r.tree, path, denied).tree]
    ELSE [status |-> VDB_ERROR_IO, tree |-> r.tree]

\* create_directory(path): [status, tree].  The paths of the model are
\* shorter than MAX_PATH, so the strncpy into parent copies all of path.
RECURSIVE create_directory_in(_, _, _)
create_directory_in(t, path, denied) ==
    IF stat(t, path) = "dir" THEN [status |-> VDB_OK, tree |-> t]
    ELSE IF stat(t, path) = "file"
    THEN [status |-> VDB_ERROR_ALREADY_EXISTS, tree |-> t]
    ELSE IF mkdir(t, path, denied).errno = "0"
    THEN [status |-> VDB_OK, tree |-> mkdir(t, path, denied).tree]
    ELSE IF mkdir(t, path, denied).errno = "ENOENT"
            /\ strrchr(path, Slash) # 0 /\ strrchr(path, Slash) # 1
    THEN RetryMkdir(
             create_directory_in(
                 t, SubSeq(path, 1, strrchr(path, Slash) - 1), denied),
             path, denied)
    ELSE [status |-> VDB_ERROR_IO, tree |-> t]

\* The nodes a, a/b and a/b/c, and the trees made of them: a and a/b may be
\* directories, each of the three may be a regular file, under a directory.
NodeA == << << 97 >> >>
NodeAB == << << 97 >>, << 98 >> >>
NodeABC == << << 97 >>, << 98 >>, << 99 >> >>

DirTrees ==
    { t \in [dirs : SUBSET {NodeA, NodeAB}, files : SUBSET {NodeA, NodeAB, NodeABC}] :
        /\ t.dirs \cap t.files = {}
        /\ \A n \in t.dirs \cup t.files : IsDir(t, SubSeq(n, 1, Len(n) - 1)) }

\* "a", "a/b", "a/b/c", "a/", "a/b/", "/a", "/a/b", "a//b", "/" and "".
DirPaths ==
    { << 97 >>, << 97, 47, 98 >>, << 97, 47, 98, 47, 99 >>,
      << 97, 47 >>, << 97, 47, 98, 47 >>, << 47, 97 >>, << 47, 97, 47, 98 >>,
      << 97, 47, 47, 98 >>, << 47 >>, << >> }

\* Nodes whose mkdir fails with EACCES in one call.
DirDenied == { {}, {NodeA}, {NodeAB} }

DirInit ==
    /\ fs \in DirTrees
    /\ arg = NULL
    /\ ret = [op |-> "none", status |-> VDB_OK]
    /\ collection = NULL
    /\ RestInit

\* A call of create_directory; ret keeps the tree it found.
DirCall ==
    /\ \E path \in DirPaths, denied \in DirDenied :
          \E r \in {create_directory_in(fs, path, denied)} :
              /\ fs' = r.tree
              /\ arg' = [path |-> path, denied |-> denied]
              /\ ret' = [op |-> "create_directory", status |-> r.status,
                         nth |-> 1, before |-> fs, first |-> r.status]
    /\ UNCHANGED collection
    /\ RestUnchanged

\* The same call once more, no mkdir being denied.
DirRepeat ==
    /\ ret.op = "create_directory"
    /\ \E r \in {create_directory_in(fs, arg.path, {})} :
          /\ fs' = r.tree
          /\ ret' = [op |-> "create_directory", status |-> r.status,
                     nth |-> 2, before |-> fs, first |-> ret.status]
    /\ arg' = [arg EXCEPT !.denied = {}]
    /\ UNCHANGED collection
    /\ RestUnchanged

DirNext ==
    \/ DirCall
    \/ DirRepeat

DirSpec == DirInit /\ [][DirNext]_vars

\* Every node on the way to node, node included, is a directory.
DirsDownTo(t, node) == \A k \in 0..Len(node) : IsDir(t, SubSeq(node, 1, k))

\* C25: a create_directory(path) in which no mkdir is denied, on a path that
\* names a directory or names nothing (stat fails with ENOENT), returns
\* VDB_OK and leaves directories at path and at all its ancestors, and the
\* same call made again returns VDB_OK and changes nothing; on a path that
\* names something that is no directory it returns VDB_ERROR_ALREADY_EXISTS
\* and changes nothing; every other call that fails returns VDB_ERROR_IO.
C25_EnsureDirectory ==
    ret.op = "create_directory" =>
        /\ (arg.denied = {} /\ arg.path # << >>
            /\ stat(ret.before, arg.path) \in {"dir", "ENOENT"}) =>
              /\ ret.status = VDB_OK
              /\ DirsDownTo(fs, Components(arg.path))
        /\ (ret.nth = 2 /\ ret.first = VDB_OK) =>
              (ret.status = VDB_OK /\ fs = ret.before)
        /\ stat(ret.before, arg.path) = "file" =>
              (ret.status = VDB_ERROR_ALREADY_EXISTS /\ fs = ret.before)
        /\ (ret.status # VDB_OK /\ stat(ret.before, arg.path) # "file") =>
              ret.status = VDB_ERROR_IO

(* ----------------------------------------------------------------------- *)
(* vdb_collection_validate_params                                          *)
(* ----------------------------------------------------------------------- *)
\* n chars 'x'.
Xs(n) == [i \in 1..n |-> 120]

\* Names: NULL, "", "d", "demo", 63, 64 and 65 chars, " ", "~", and names
\* with a BEL, a US (31), a DEL (127) and a char above 127.
ParamNames ==
    { NULLSTR, << >>, << 100 >>, ValidName,
      Xs(VDB_COLLECTION_NAME_MAX_LEN - 1), Xs(VDB_COLLECTION_NAME_MAX_LEN),
      Xs(VDB_COLLECTION_NAME_MAX_LEN + 1),
      << 32 >>, << 126 >>, << 100, 7 >>, << 31 >>, << 127 >>, << 100, 200 >> }

\* Values of a uint32_t dim up to the largest the model's integers hold, and
\* values of the enum, inside and outside its two members.
ParamDims ==
    {0, 1, 2, VDB_COLLECTION_MAX_DIM - 1, VDB_COLLECTION_MAX_DIM,
     VDB_COLLECTION_MAX_DIM + 1, 2147483647}
ParamMetrics == {-1, VDB_METRIC_COSINE, VDB_METRIC_EUCLIDEAN, 2}

ValidateInit ==
    /\ arg \in [name : ParamNames, dim : ParamDims, metric : ParamMetrics]
    /\ ret = [op |-> "none", status |-> VDB_OK]
    /\ fs = EmptyFs
    /\ collection = NULL
    /\ RestInit

\* vdb_collection_validate_params(name, dim, metric)
Validate ==
    /\ ret.op = "none"
    /\ ret' = [op |-> "validate",
               status |-> vdb_collection_validate_params(arg.name, arg.dim,
                                                         arg.metric)]
    /\ UNCHANGED << fs, arg >>
    /\ UNCHANGED collection
    /\ RestUnchanged

ValidateNext == Validate

ValidateSpec == ValidateInit /\ [][ValidateNext]_vars

\* A name that is not null, not empty, shorter than 64 chars and printable.
NameValid(name) ==
    /\ name # NULLSTR
    /\ Len(name) >= 1 /\ Len(name) <= VDB_COLLECTION_NAME_MAX_LEN - 1
    /\ \A k \in 1..Len(name) : name[k] >= 32 /\ name[k] <= 126

\* C26: vdb_collection_validate_params returns VDB_OK when the name is not
\* null, not empty, shorter than 64 chars and printable, the dimension is in
\* 1..65536 and the metric is cosine or euclidean, and
\* VDB_ERROR_INVALID_ARGUMENT in every other case.
C26_ValidateParams ==
    ret.op = "validate" =>
        ret.status =
            IF /\ NameValid(arg.name)
               /\ arg.dim >= 1 /\ arg.dim <= 65536
               /\ arg.metric \in {VDB_METRIC_COSINE, VDB_METRIC_EUCLIDEAN}
            THEN VDB_OK
            ELSE VDB_ERROR_INVALID_ARGUMENT

\* A name of 63 chars with the largest dimension was accepted.
C26_Witness ==
    /\ ret.op = "validate" /\ ret.status = VDB_OK
    /\ Len(arg.name) = VDB_COLLECTION_NAME_MAX_LEN - 1
    /\ arg.dim = VDB_COLLECTION_MAX_DIM

(* ----------------------------------------------------------------------- *)
(* collection.c: create, get_info, close                                   *)
(* ----------------------------------------------------------------------- *)
\* A pointer is NULL, NonNull (it points somewhere the caller never set), or
\* the struct vdb_collection it points to.
\* What malloc may hand out for the 64 bytes of name: memory that held
\* zeros, or that held something else.
Garbage == { Zeros(VDB_COLLECTION_NAME_MAX_LEN), Xs(VDB_COLLECTION_NAME_MAX_LEN) }

\* A create that leaves the caller's pointer alone when it fails.
vdb_collection_create_leaving(prev, name, dim, metric, out_collection, malloc_fails, junk) ==
    IF out_collection = NULL
    THEN [status |-> VDB_ERROR_INVALID_ARGUMENT, out |-> prev]
    ELSE IF vdb_collection_validate_params(name, dim, metric) # VDB_OK
    THEN [status |-> vdb_collection_validate_params(name, dim, metric),
          out |-> prev]
    ELSE IF malloc_fails
    THEN [status |-> VDB_ERROR_OUT_OF_MEMORY, out |-> prev]
    ELSE [status |-> VDB_OK,
          out |-> [name |-> [strncpy(junk, name,
                                     VDB_COLLECTION_NAME_MAX_LEN - 1)
                             EXCEPT ![VDB_COLLECTION_NAME_MAX_LEN] = 0],
                   dim |-> dim, metric |-> metric, num_vectors |-> 0]]

\* vdb_collection_create: [status, out], out being what the caller's pointer
\* holds after the call; prev is what it held before, junk what the
\* allocated name held.
vdb_collection_create(prev, name, dim, metric, out_collection, malloc_fails, junk) ==
    IF out_collection = NULL
    THEN [status |-> VDB_ERROR_INVALID_ARGUMENT, out |-> prev]
    ELSE IF vdb_collection_validate_params(name, dim, metric) # VDB_OK
    THEN [status |-> vdb_collection_validate_params(name, dim, metric),
          out |-> NULL]
    ELSE IF malloc_fails
    THEN [status |-> VDB_ERROR_OUT_OF_MEMORY, out |-> NULL]
    ELSE [status |-> VDB_OK,
          out |-> [name |-> [strncpy(junk, name,
                                     VDB_COLLECTION_NAME_MAX_LEN - 1)
                             EXCEPT ![VDB_COLLECTION_NAME_MAX_LEN] = 0],
                   dim |-> dim, metric |-> metric, num_vectors |-> 0]]

\* A close that frees the collection and leaves the caller's pointer as it
\* was.
vdb_collection_close_dangling(pp, coll) == coll

\* vdb_collection_close(&coll), or vdb_collection_close(NULL) when pp is
\* NULL: what the caller's pointer holds after the call.
vdb_collection_close(pp, coll) ==
    IF pp = NULL \/ coll = NULL THEN coll ELSE NULL

\* No info: what *out_info is when get_info does not write it.
NoInfo == [name |-> << >>, dim |-> 0, metric |-> 0, num_vectors |-> 0]

\* vdb_collection_get_info: [status, info].
vdb_collection_get_info(coll, out_info) ==
    IF coll = NULL \/ out_info = NULL
    THEN [status |-> VDB_ERROR_INVALID_ARGUMENT, info |-> NoInfo]
    ELSE [status |-> VDB_OK,
          info |-> [name |-> [strncpy(Zeros(VDB_COLLECTION_NAME_MAX_LEN),
                                      coll.name, VDB_COLLECTION_NAME_MAX_LEN)
                              EXCEPT ![VDB_COLLECTION_NAME_MAX_LEN] = 0],
                    dim |-> coll.dim, metric |-> coll.metric,
                    num_vectors |-> coll.num_vectors]]

\* What callers give to vdb_collection_create.
CollNames ==
    { NULLSTR, ValidName, Xs(VDB_COLLECTION_NAME_MAX_LEN - 1),
      Xs(VDB_COLLECTION_NAME_MAX_LEN) }
CollDims == {0, 1, VDB_COLLECTION_MAX_DIM}
CollMetrics == {VDB_METRIC_COSINE, VDB_METRIC_EUCLIDEAN, 2}

\* The caller's pointer is NULL or was never set.
CollInit ==
    /\ collection \in {NULL, NonNull}
    /\ arg = NULL
    /\ ret = [op |-> "none", status |-> VDB_OK]
    /\ fs = EmptyFs
    /\ RestInit

\* vdb_collection_create(name, dim, metric, &coll), or with NULL for &coll.
CollCreate ==
    /\ \E name \in CollNames, dim \in CollDims, metric \in CollMetrics,
          out \in {NonNull, NULL}, malloc_fails \in BOOLEAN, junk \in Garbage :
          \E r \in {vdb_collection_create(collection, name, dim, metric, out,
                                          malloc_fails, junk)} :
              /\ collection' = r.out
              /\ arg' = [name |-> name, dim |-> dim, metric |-> metric,
                         out |-> out]
              /\ ret' = [op |-> "coll_create", status |-> r.status,
                         was |-> collection]
    /\ UNCHANGED fs
    /\ RestUnchanged

\* vdb_collection_get_info(coll, &info), or with NULL for &info, on a
\* pointer that is NULL or points to a collection.
CollGetInfo ==
    /\ collection # NonNull
    /\ \E out_info \in {NonNull, NULL} :
          \E r \in {vdb_collection_get_info(collection, out_info)} :
              ret' = [op |-> "get_info", status |-> r.status,
                      info |-> r.info, out_info |-> out_info]
    /\ UNCHANGED << fs, arg, collection,
                    vector >>
    /\ RestUnchanged

\* vdb_collection_close(&coll), or vdb_collection_close(NULL), the pointer
\* being NULL or pointing to a collection.  ret keeps what the pointer held
\* and whether the call before was a close of a collection.
CollClose ==
    /\ collection # NonNull
    /\ \E pp \in {NonNull, NULL} :
          /\ collection' = vdb_collection_close(pp, collection)
          /\ ret' = [op |-> "coll_close", status |-> VDB_OK, pp |-> pp,
                     was |-> collection,
                     again |-> /\ ret.op = "coll_close"
                               /\ ret.pp # NULL /\ ret.was # NULL]
    /\ UNCHANGED << fs, arg >>
    /\ RestUnchanged

CollNext ==
    \/ CollCreate
    \/ CollGetInfo
    \/ CollClose

CollSpec == CollInit /\ [][CollNext]_vars

\* C27: a vdb_collection_create with a null output pointer returns
\* VDB_ERROR_INVALID_ARGUMENT; with an output pointer it either returns
\* VDB_OK and leaves a collection of which get_info reports the name, the
\* dimension and the metric that were given and num_vectors 0, or returns an
\* error and leaves the caller's pointer NULL.
C27_CollectionCreate ==
    /\ (ret.op = "coll_create" /\ arg.out = NULL) =>
          (ret.status = VDB_ERROR_INVALID_ARGUMENT /\ collection = ret.was)
    /\ (ret.op = "coll_create" /\ arg.out # NULL) =>
          IF ret.status = VDB_OK
          THEN /\ collection \notin {NULL, NonNull}
               /\ vdb_collection_get_info(collection, NonNull).status = VDB_OK
          ELSE collection = NULL
    /\ (ret.op = "get_info" /\ ret.out_info # NULL /\ collection # NULL
        /\ arg.out # NULL) =>
          /\ ret.status = VDB_OK
          /\ ret.info.name[VDB_COLLECTION_NAME_MAX_LEN] = 0
          /\ CString(ret.info.name) = arg.name
          /\ ret.info.dim = arg.dim
          /\ ret.info.metric = arg.metric
          /\ ret.info.num_vectors = 0

\* get_info reported a collection with a name of 63 chars and the largest
\* dimension.
C27_Witness ==
    /\ ret.op = "get_info" /\ ret.status = VDB_OK /\ arg.out # NULL
    /\ CString(ret.info.name) = Xs(VDB_COLLECTION_NAME_MAX_LEN - 1)
    /\ ret.info.dim = VDB_COLLECTION_MAX_DIM

\* C28: a vdb_collection_close on the caller's pointer to a collection
\* leaves that pointer NULL; a close of a pointer that is NULL already, such
\* as a second close, and a close given NULL change nothing.
C28_CollectionClose ==
    ret.op = "coll_close" =>
        /\ (ret.pp # NULL /\ ret.was # NULL) => collection = NULL
        /\ (ret.pp = NULL \/ ret.was = NULL) => collection = ret.was

\* A collection was closed, and closed again.
C28_Witness ==
    /\ ret.op = "coll_close" /\ ret.again /\ ret.pp # NULL
    /\ ret.was = NULL /\ collection = NULL

(* ----------------------------------------------------------------------- *)
(* vdb_id_is_valid and vdb_id_copy                                         *)
(* ----------------------------------------------------------------------- *)
\* The chars s and their NUL.
Str(s) == s \o << 0 >>

\* What callers give as src: NULL; ""; strings of 1, 2, 3, 62, 63, 64 and
\* 100 chars; an array of 64 chars with no NUL; arrays of 64 with chars
\* after the NUL; the printable bounds ' ' and '~'; chars 7, 31, 127 and 200
\* at the head, in the middle and at the end; a BEL after the NUL; and a BEL
\* as 64th char of a string of 64.
IdSources ==
    { NULLSTR, Str(<< >>), Str(<< 97 >>), Str(<< 97, 98 >>),
      Str(<< 97, 98, 99 >>), Str(Xs(VDB_ID_MAX_LEN - 2)),
      Str(Xs(VDB_ID_MAX_LEN - 1)), Str(Xs(VDB_ID_MAX_LEN)), Str(Xs(100)),
      Xs(VDB_ID_MAX_LEN), MkId(<< 97 >>, << >>), MkId(<< 100 >>, << 121, 122 >>),
      Str(<< 32 >>), Str(<< 126 >>), Str(<< 7 >>), Str(<< 31 >>),
      Str(<< 127 >>), Str(<< 200 >>), Str(<< 101, 7 >>),
      Str(<< 101, 7, 102 >>), Str(Xs(VDB_ID_MAX_LEN - 2) \o << 7 >>),
      << 97, 0, 7, 0 >>, Str(Xs(VDB_ID_MAX_LEN - 1) \o << 7 >>) }

\* What the caller's vdb_id_t holds before the copy: zeros, 64 chars with no
\* NUL, or an id.
IdTargets ==
    { Zeros(VDB_ID_MAX_LEN), Xs(VDB_ID_MAX_LEN),
      MkId(<< 111, 108, 100 >>, << >>) }

IdInit ==
    /\ arg \in [src : IdSources, dst : IdTargets]
    /\ ret = [op |-> "none", status |-> VDB_OK]
    /\ fs = EmptyFs
    /\ collection = NULL
    /\ RestInit

\* vdb_id_is_valid(src)
IdIsValid ==
    /\ ret' = [op |-> "is_valid", result |-> vdb_id_is_valid(arg.src)]
    /\ UNCHANGED << fs, arg, collection,
                    vector >>
    /\ RestUnchanged

\* vdb_id_copy(src, dst); ret keeps what dst held before.
IdCopy ==
    /\ \E r \in {vdb_id_copy(arg.src, arg.dst)} :
          /\ arg' = [arg EXCEPT !.dst = r.dst]
          /\ ret' = [op |-> "copy", status |-> r.status, before |-> arg.dst]
    /\ UNCHANGED << fs, collection,
                    vector >>
    /\ RestUnchanged

IdNext ==
    \/ IdIsValid
    \/ IdCopy

IdSpec == IdInit /\ [][IdNext]_vars

\* An id that is not null and holds between 1 and 63 printable chars before
\* its NUL.
IdWellFormed(id) ==
    /\ id # NULLSTR
    /\ \E n \in 1..(VDB_ID_MAX_LEN - 1) :
          /\ n + 1 <= Len(id)
          /\ id[n + 1] = 0
          /\ \A k \in 1..n : id[k] >= 32 /\ id[k] <= 126

\* C29: vdb_id_is_valid(id) is true when id is not null, is not empty, has
\* its NUL within its first 64 bytes and only printable chars before it, and
\* false in every other case.
C29_IdIsValid ==
    ret.op = "is_valid" => (ret.result <=> IdWellFormed(arg.src))

\* An id of 63 chars was found valid.
C29_Witness ==
    /\ ret.op = "is_valid" /\ ret.result
    /\ strlen(arg.src) = VDB_ID_MAX_LEN - 1

\* C30: vdb_id_copy(src, dst) of a valid src returns VDB_OK and leaves in
\* dst the string of src with its NUL, the last of the 64 bytes being NUL;
\* of an invalid src (null, empty, too long, not printable) it returns
\* VDB_ERROR_INVALID_ARGUMENT and leaves the 64 bytes of dst as they were.
C30_IdCopy ==
    ret.op = "copy" =>
        IF IdWellFormed(arg.src)
        THEN /\ ret.status = VDB_OK
             /\ Len(arg.dst) = VDB_ID_MAX_LEN
             /\ arg.dst[VDB_ID_MAX_LEN] = 0
             /\ CString(arg.dst) = CString(arg.src)
        ELSE /\ ret.status = VDB_ERROR_INVALID_ARGUMENT
             /\ arg.dst = ret.before

\* An id of 63 chars was copied into an array that held no NUL.
C30_Witness ==
    /\ ret.op = "copy" /\ ret.status = VDB_OK
    /\ strlen(arg.src) = VDB_ID_MAX_LEN - 1
    /\ ret.before = Xs(VDB_ID_MAX_LEN)
    /\ arg.dst = Str(Xs(VDB_ID_MAX_LEN - 1))

(* ----------------------------------------------------------------------- *)
(* vdb_vector_create and vdb_vector_free                                   *)
(* ----------------------------------------------------------------------- *)
\* A vdb_vector_t is [dim, data], data being NULL, NonNull (a pointer the
\* caller never set) or a pointer to an array of n floats, which the model
\* keeps as the set of its << index, value >> pairs whose value is not 0.0.
\* calloc(n, sizeof(float)) when it succeeds: n floats, all of them 0.0.
calloc(n) == [n |-> n, set |-> {}]

\* A create that leaves *out_vector alone when it rejects the dimension.
vdb_vector_create_leaving(prev, dim, out_vector, calloc_fails) ==
    IF out_vector = NULL
    THEN [status |-> VDB_ERROR_INVALID_ARGUMENT, out |-> prev]
    ELSE IF dim = 0 \/ dim > VDB_COLLECTION_MAX_DIM
    THEN [status |-> VDB_ERROR_INVALID_ARGUMENT, out |-> prev]
    ELSE IF calloc_fails
    THEN [status |-> VDB_ERROR_OUT_OF_MEMORY,
          out |-> [dim |-> 0, data |-> NULL]]
    ELSE [status |-> VDB_OK, out |-> [dim |-> dim, data |-> calloc(dim)]]

\* vdb_vector_create: [status, out], out being what the caller's
\* vdb_vector_t holds after the call and prev what it held before.
vdb_vector_create(prev, dim, out_vector, calloc_fails) ==
    IF out_vector = NULL
    THEN [status |-> VDB_ERROR_INVALID_ARGUMENT, out |-> prev]
    ELSE IF dim = 0 \/ dim > VDB_COLLECTION_MAX_DIM
    THEN [status |-> VDB_ERROR_INVALID_ARGUMENT,
          out |-> [dim |-> 0, data |-> NULL]]
    ELSE IF calloc_fails
    THEN [status |-> VDB_ERROR_OUT_OF_MEMORY,
          out |-> [dim |-> 0, data |-> NULL]]
    ELSE [status |-> VDB_OK, out |-> [dim |-> dim, data |-> calloc(dim)]]

\* vdb_vector_free(&vec), or vdb_vector_free(NULL) when p is NULL: what the
\* caller's vdb_vector_t holds after the call.
vdb_vector_free(p, vec) ==
    IF p = NULL THEN vec ELSE [dim |-> 0, data |-> NULL]

\* Dimensions at and next to the two ends of 1..VDB_COLLECTION_MAX_DIM, the
\* 128 of the tests, and the largest the model's integers hold.
VecDims ==
    {0, 1, 2, 128, VDB_COLLECTION_MAX_DIM, VDB_COLLECTION_MAX_DIM + 1,
     2147483647}

\* The caller's vdb_vector_t was never set, or is {0, NULL}.
VecInit ==
    /\ vector \in {[dim |-> 7, data |-> NonNull], [dim |-> 0, data |-> NULL]}
    /\ arg = NULL
    /\ ret = [op |-> "none", status |-> VDB_OK]
    /\ fs = EmptyFs
    /\ collection = NULL
    /\ fds = {}
    /\ durable = [embeddings_seg |-> 0, ids_seg |-> 0, metadata_seg |-> 0,
                  wal_log |-> 0]
    /\ storage = NULL
    /\ pc = "idle"
    /\ item = NULL
    /\ acked = << >>
    /\ faulted = FALSE
    /\ pre = Snapshot(EmptyFs, 0)
    /\ crash = NoCrash
    /\ recs = 0
    /\ rec1 = Snapshot(EmptyFs, 0)
    /\ life = "none"
    /\ walDirty = FALSE
    /\ segDirty = FALSE
    /\ calls = [made |-> 0, mishaps |-> 0]
    /\ origin = NULL
    /\ fdlog = NoFds

\* vdb_vector_create(dim, &vec), or with NULL for &vec.
VecCreate ==
    /\ \E dim \in VecDims, out \in {NonNull, NULL}, calloc_fails \in BOOLEAN :
          \E r \in {vdb_vector_create(vector, dim, out, calloc_fails)} :
              /\ vector' = r.out
              /\ arg' = [dim |-> dim, out |-> out]
              /\ ret' = [op |-> "vec_create", status |-> r.status,
                         was |-> vector]
    /\ UNCHANGED << fs, collection, fds, durable, storage, pc, item, acked,
                    faulted, pre, crash, recs, rec1, life, walDirty, segDirty, calls,
                    origin, fdlog >>

\* The caller writes a float (3.0) into a slot of the vector it created.
VecStore ==
    /\ vector.data \notin {NULL, NonNull}
    /\ \E i \in {1, vector.dim} :
          vector' = [vector EXCEPT !.data.set = @ \cup {<< i, 3 >>}]
    /\ ret' = [op |-> "vec_store", status |-> VDB_OK]
    /\ UNCHANGED << arg, fs, collection, fds, durable, storage, pc, item,
                    acked, faulted, pre, crash, recs, rec1, life, walDirty, segDirty,
                    calls, origin, fdlog >>

\* vdb_vector_free(&vec), or vdb_vector_free(NULL), on a vector that create
\* or free has set.  ret keeps what the vector held and whether the call
\* before was a free of the same vector.
VecFree ==
    /\ vector.data # NonNull
    /\ \E p \in {NonNull, NULL} :
          /\ vector' = vdb_vector_free(p, vector)
          /\ ret' = [op |-> "vec_free", status |-> VDB_OK, p |-> p,
                     was |-> vector,
                     again |-> ret.op = "vec_free" /\ ret.p # NULL]
    /\ UNCHANGED << arg, fs, collection, fds, durable, storage, pc, item,
                    acked, faulted, pre, crash, recs, rec1, life, walDirty, segDirty,
                    calls, origin, fdlog >>

VecNext ==
    \/ VecCreate
    \/ VecStore
    \/ VecFree

VecSpec == VecInit /\ [][VecNext]_vars

\* C31 as the claim has it: a vdb_vector_create with a dimension outside
\* 1..65536 returns VDB_ERROR_INVALID_ARGUMENT and leaves {0, NULL}; with a
\* dimension inside, it leaves a vector of that dimension filled with
\* zeros; vdb_vector_free leaves {0, NULL}, and a second free changes
\* nothing.
C31_VectorCreateAlwaysYields ==
    /\ (ret.op = "vec_create" /\ arg.out # NULL) =>
          IF arg.dim \in 1..VDB_COLLECTION_MAX_DIM
          THEN /\ vector.dim = arg.dim
               /\ vector.data = calloc(arg.dim)
          ELSE /\ ret.status = VDB_ERROR_INVALID_ARGUMENT
               /\ vector = [dim |-> 0, data |-> NULL]
    /\ (ret.op = "vec_free" /\ ret.p # NULL) =>
          /\ vector = [dim |-> 0, data |-> NULL]
          /\ ret.again => vector = ret.was

\* C31: a vdb_vector_create with a dimension outside 1..65536 returns
\* VDB_ERROR_INVALID_ARGUMENT and leaves {0, NULL}; with a dimension inside,
\* it returns VDB_OK and leaves a vector of that dimension filled with
\* zeros, or calloc fails and it returns VDB_ERROR_OUT_OF_MEMORY and leaves
\* {0, NULL}; vdb_vector_free leaves {0, NULL}, and a second free changes
\* nothing.
C31_VectorCreateFree ==
    /\ (ret.op = "vec_create" /\ arg.out # NULL) =>
          IF arg.dim \in 1..VDB_COLLECTION_MAX_DIM
          THEN \/ /\ ret.status = VDB_OK
                  /\ vector.dim = arg.dim
                  /\ vector.data = calloc(arg.dim)
               \/ /\ ret.status = VDB_ERROR_OUT_OF_MEMORY
                  /\ vector = [dim |-> 0, data |-> NULL]
          ELSE /\ ret.status = VDB_ERROR_INVALID_ARGUMENT
               /\ vector = [dim |-> 0, data |-> NULL]
    /\ (ret.op = "vec_free" /\ ret.p # NULL) =>
          /\ vector = [dim |-> 0, data |-> NULL]
          /\ ret.again => vector = ret.was

\* A vector of the largest dimension was created, freed, and freed again.
C31_Witness ==
    /\ ret.op = "vec_free" /\ ret.again /\ ret.p # NULL
    /\ arg # NULL /\ arg.dim = VDB_COLLECTION_MAX_DIM /\ arg.out # NULL
    /\ ret.was = [dim |-> 0, data |-> NULL]
    /\ vector = [dim |-> 0, data |-> NULL]

(* ----------------------------------------------------------------------- *)
(* Crashes and failures inside an append                                   *)
(* ----------------------------------------------------------------------- *)
\* The complete records of embeddings.seg for a dimension, and of ids.seg.
EmbeddingRecords(dim) == Len(fs.embeddings_seg) \div (dim * SizeofFloat)
IdRecords == Len(fs.ids_seg) \div VDB_ID_MAX_LEN

\* The first successful open after the process died inside an append has
\* just returned.
OpenedAfterCrashedAppend ==
    /\ HandleIdle /\ ret.op = "open" /\ recs = 1
    /\ crash.pc \notin {"none", "idle"}

\* C32: after the process died at any point inside an append and an open
\* with recovery then succeeded, the embeddings, ids and metadata segments
\* hold the same number of complete records, and that number is the count of
\* the handle the open returned.
C32_CrashedAppendReconciled ==
    OpenedAfterCrashedAppend =>
        /\ EmbeddingRecords(storage.dim) = IdRecords
        /\ MetadataRecords(fs.metadata_seg, 0) = IdRecords
        /\ storage.count = IdRecords

\* C33: when the process dies between calls, with every append made so far
\* having returned VDB_OK and no close, the count in collection.meta is the
\* number of records in the three segments, and so is the count of the
\* handle the next open gives.
C33_AckedCountSurvivesCrash ==
    /\ (ret.op = "crash" /\ crash.pc = "idle" /\ ~faulted) =>
          CountMatches(ScanMeta(fs.collection_meta))
    /\ (HandleIdle /\ ret.op = "open" /\ crash.pc = "idle" /\ ~faulted) =>
          /\ storage.count = IdRecords
          /\ storage.count = EmbeddingRecords(storage.dim)
          /\ storage.count = MetadataRecords(fs.metadata_seg, 0)

\* C34: on a handle on which an append has failed with VDB_ERROR_IO at a
\* segment write or fsync, between calls and after any later appends that
\* returned VDB_OK, the three segments hold equally many records, and the
\* lockstep read of them pairs every id with the vector and the metadata of
\* one appended item.
C34_FailedAppendKeepsPairing ==
    (HandleIdle /\ segDirty) =>
        /\ Len(fs.ids_seg) = IdRecords * VDB_ID_MAX_LEN
        /\ Len(fs.embeddings_seg) = IdRecords * storage.dim * SizeofFloat
        /\ MetadataRecords(fs.metadata_seg, 0) = IdRecords
        /\ \E r \in {vdb_storage_iterate(fs, storage)} :
              /\ r.status = VDB_OK
              /\ Len(r.items) = IdRecords
              /\ \A k \in 1..Len(r.items) :
                    \E it \in Items : SameItem(r.items[k], it)

\* The last append stopped inside write_wal_record, by a failing call or by
\* the death of the process: it wrote a part or all of its record to the
\* log, no fsync covers what it wrote, and no segment was written.
PartialWalRecord ==
    /\ pc = "idle"
    /\ Len(fs.wal_log) > Len(pre.wal_log)
    /\ durable.wal_log < Len(fs.wal_log)
    /\ NotApplied

\* This step is an open that returns VDB_OK, recovery included.
Recovers == OpenCalled /\ ret'.status = VDB_OK

\* What recovery does with a partly written record: it empties the log and
\* leaves the three segments and collection.meta as they were, the count of
\* the handle being the one of collection.meta.
PartialWalDiscarded ==
    [][(PartialWalRecord /\ Recovers) =>
          /\ fs'.wal_log = << >>
          /\ fs'.embeddings_seg = pre.embeddings_seg
          /\ fs'.ids_seg = pre.ids_seg
          /\ fs'.metadata_seg = pre.metadata_seg
          /\ fs'.collection_meta = fs.collection_meta
          /\ storage'.count = ScanMeta(fs.collection_meta).count]_vars

\* C35: an open whose recovery finds a partly written WAL record, left by
\* an append that failed or died inside the WAL write before its fsync
\* completed, empties the log and gives a handle over the three segments
\* and with the count that the handle had when that append began.
C35_PartialWalRecordDiscarded ==
    [][(PartialWalRecord /\ Recovers) =>
          /\ fs'.wal_log = << >>
          /\ fs'.embeddings_seg = pre.embeddings_seg
          /\ fs'.ids_seg = pre.ids_seg
          /\ fs'.metadata_seg = pre.metadata_seg
          /\ storage'.count = pre.count]_vars

\* C36: a create that returned an error other than
\* VDB_ERROR_ALREADY_EXISTS has left no collection directory, so that the
\* same create made again is not answered VDB_ERROR_ALREADY_EXISTS.
C36_FailedCreateLeavesNothing ==
    (ret.op = "create" /\ ret.status \notin {VDB_OK, VDB_ERROR_ALREADY_EXISTS}) =>
        /\ ~fs.dir
        /\ \A fault \in CreateFaults, kept \in BOOLEAN :
              vdb_storage_create(fs, fds, arg, fault, kept).status
                  # VDB_ERROR_ALREADY_EXISTS

(* ----------------------------------------------------------------------- *)
(* The WAL record against the segment records                              *)
(* ----------------------------------------------------------------------- *)
\* What the executing append has written to the log.
WalTail == SubSeq(fs.wal_log, Len(pre.wal_log) + 1, Len(fs.wal_log))

\* What a replay of the record w (header, then id_len bytes, then
\* vector_dim * 4 bytes, then metadata_len bytes) would append to ids.seg,
\* to embeddings.seg and to metadata.seg.
ReplayedId(w) ==
    SubSeq(w, SizeofWalHeader + 1, SizeofWalHeader + WalIdLen(w))
    \o Zeros(VDB_ID_MAX_LEN - WalIdLen(w))
ReplayedVector(w) ==
    SubSeq(w, SizeofWalHeader + WalIdLen(w) + 1,
           SizeofWalHeader + WalIdLen(w) + WalVectorDim(w) * SizeofFloat)
ReplayedMetadata(w) ==
    U32LE(WalMetadataLen(w))
    \o SubSeq(w, WalRecordLen(w) - WalMetadataLen(w) + 1, WalRecordLen(w))

\* The executing append has made all its segment writes.
SegmentsWritten ==
    pc \in {"fsync_emb", "fsync_ids", "fsync_md", "count_inc", "wal_truncate"}

\* C37: once an append has made its segment writes, the record it wrote to
\* the log is one whole WAL_RECORD_APPEND record whose id, vector and
\* metadata, read back from the log, are byte for byte what the call
\* appended to ids.seg (zero-padded to 64), embeddings.seg and metadata.seg
\* (length-prefixed); metadata that is absent and metadata that is empty
\* both give length 0 in the log and in the segment.
C37_WalRecordIsSegmentRecords ==
    SegmentsWritten =>
        /\ Len(WalTail) >= SizeofWalHeader
        /\ WalTail[1] = WAL_RECORD_APPEND
        /\ Len(WalTail) = WalRecordLen(WalTail)
        /\ WalVectorDim(WalTail) = storage.dim
        /\ fs.ids_seg = pre.ids_seg \o ReplayedId(WalTail)
        /\ fs.embeddings_seg = pre.embeddings_seg \o ReplayedVector(WalTail)
        /\ fs.metadata_seg = pre.metadata_seg \o ReplayedMetadata(WalTail)
        /\ CString(ReplayedId(WalTail)) = CString(item.id)
        /\ ReplayedVector(WalTail) = FloatBytes(item.vector.data, item.vector.dim)
        /\ item.metadata \in {NULLSTR, << >>} =>
              /\ WalMetadataLen(WalTail) = 0
              /\ ReplayedMetadata(WalTail) = U32LE(0)

\* An append of the id "d", held in an array with other chars after its
\* NUL, and of empty metadata has written its three segment records.
C37_Witness ==
    /\ pc = "wal_truncate" /\ item = ItemC
    /\ fs.ids_seg = pre.ids_seg \o ReplayedId(WalTail)
    /\ Len(fs.metadata_seg) = Len(pre.metadata_seg) + SizeofU32

(* ----------------------------------------------------------------------- *)
(* Two processes in vdb_storage_create                                     *)
(* ----------------------------------------------------------------------- *)
\* Two processes call vdb_storage_create for the same (base_dir, name), the
\* base directory being there.  Each has its own arguments, position,
\* descriptors, handle and result: arg, pc, fds, storage and ret are
\* functions of the process here.  The system calls that look for and make
\* the collection directory are steps of their own; what follows them is
\* one step.
Procs == {1, 2}

\* Valid arguments: dimension 1 with cosine, dimension 2 with euclidean.
RaceArgs ==
    {a \in CreateArgs :
        /\ a.base_dir # NULLSTR /\ a.name # NULLSTR /\ a.out_storage # NULL
        /\ vdb_collection_validate_params(a.name, a.dim, a.metric) = VDB_OK}

RaceInit ==
    /\ fs = EmptyFs
    /\ pc = [p \in Procs |-> "idle"]
    /\ arg = [p \in Procs |-> NULL]
    /\ ret = [p \in Procs |->
                 [op |-> "none", status |-> VDB_OK, after |-> FALSE]]
    /\ storage = [p \in Procs |-> NULL]
    /\ fds = [p \in Procs |-> {}]
    /\ durable = [embeddings_seg |-> 0, ids_seg |-> 0, metadata_seg |-> 0,
                  wal_log |-> 0]
    /\ item = NULL
    /\ acked = << >>
    /\ faulted = FALSE
    /\ pre = Snapshot(EmptyFs, 0)
    /\ crash = NoCrash
    /\ recs = 0
    /\ rec1 = Snapshot(EmptyFs, 0)
    /\ life = "none"
    /\ walDirty = FALSE
    /\ segDirty = FALSE
    /\ calls = [made |-> 0, mishaps |-> 0]
    /\ origin = NULL
    /\ fdlog = NoFds
    /\ collection = NULL
    /\ vector = [dim |-> 0, data |-> NULL]

\* vdb_storage_create returns status to process p without a handle.
RaceReturns(p, status) ==
    /\ pc' = [pc EXCEPT ![p] = "idle"]
    /\ ret' = [ret EXCEPT ![p] = [op |-> "create", status |-> status,
                                  after |-> ret[p].after]]

\* Process p calls vdb_storage_create, once; its arguments pass the checks.
\* ret keeps whether the call of the other process had returned by then.
RaceCall(p) ==
    /\ pc[p] = "idle" /\ ret[p].op = "none"
    /\ \E a \in RaceArgs : arg' = [arg EXCEPT ![p] = a]
    /\ pc' = [pc EXCEPT ![p] = "stat"]
    /\ ret' = [ret EXCEPT ![p] =
                  [op |-> "calling", status |-> VDB_OK,
                   after |-> \A q \in Procs \ {p} : ret[q].op = "create"]]
    /\ UNCHANGED << fs, storage, fds >>
    /\ UNCHANGED << durable, item, acked, faulted, pre, crash, recs, rec1,
                    life, walDirty, segDirty, calls, origin, fdlog,
                    collection, vector >>

\* A create that does not look for the collection directory.
RaceStatBlind(p) ==
    /\ pc[p] = "stat"
    /\ pc' = [pc EXCEPT ![p] = "dir_stat"]
    /\ UNCHANGED << fs, arg, ret, storage, fds >>
    /\ UNCHANGED << durable, item, acked, faulted, pre, crash, recs, rec1,
                    life, walDirty, segDirty, calls, origin, fdlog,
                    collection, vector >>

\* stat(coll_path, &st) == 0 in vdb_storage_create.
RaceStat(p) ==
    /\ pc[p] = "stat"
    /\ IF fs.dir
       THEN RaceReturns(p, VDB_ERROR_ALREADY_EXISTS)
       ELSE pc' = [pc EXCEPT ![p] = "dir_stat"] /\ UNCHANGED ret
    /\ UNCHANGED << fs, arg, storage, fds >>
    /\ UNCHANGED << durable, item, acked, faulted, pre, crash, recs, rec1,
                    life, walDirty, segDirty, calls, origin, fdlog,
                    collection, vector >>

\* stat(path, &st) == 0 in create_directory(coll_path): a directory that is
\* there makes create_directory return VDB_OK.
RaceDirStat(p) ==
    /\ pc[p] = "dir_stat"
    /\ pc' = [pc EXCEPT ![p] = IF fs.dir THEN "meta" ELSE "mkdir"]
    /\ UNCHANGED << fs, arg, ret, storage, fds >>
    /\ UNCHANGED << durable, item, acked, faulted, pre, crash, recs, rec1,
                    life, walDirty, segDirty, calls, origin, fdlog,
                    collection, vector >>

\* mkdir(path, 0755) in create_directory(coll_path): it makes the
\* directory, or fails with EEXIST, which is not ENOENT, so that
\* create_directory and create return VDB_ERROR_IO.
RaceMkdir(p) ==
    /\ pc[p] = "mkdir"
    /\ IF fs.dir
       THEN RaceReturns(p, VDB_ERROR_IO) /\ UNCHANGED fs
       ELSE /\ fs' = [fs EXCEPT !.dir = TRUE]
            /\ pc' = [pc EXCEPT ![p] = "meta"]
            /\ UNCHANGED ret
    /\ UNCHANGED << arg, storage, fds >>
    /\ UNCHANGED << durable, item, acked, faulted, pre, crash, recs, rec1,
                    life, walDirty, segDirty, calls, origin, fdlog,
                    collection, vector >>

\* The rest of vdb_storage_create, from write_collection_meta on, with no
\* failing call.
RaceRest(p) ==
    /\ pc[p] = "meta"
    /\ \E m \in {write_collection_meta(fs, arg[p].dim, arg[p].metric, 0,
                                       "none", FALSE)} :
       \E r \in {CreateAfterMeta(m, fds[p], arg[p], "none")} :
          /\ fs' = r.fs
          /\ fds' = [fds EXCEPT ![p] = r.fds]
          /\ storage' = [storage EXCEPT ![p] = r.out]
          /\ RaceReturns(p, r.status)
    /\ UNCHANGED arg
    /\ UNCHANGED << durable, item, acked, faulted, pre, crash, recs, rec1,
                    life, walDirty, segDirty, calls, origin, fdlog,
                    collection, vector >>

RaceNext ==
    \/ \E p \in Procs : RaceCall(p)
    \/ \E p \in Procs : RaceStat(p)
    \/ \E p \in Procs : RaceDirStat(p)
    \/ \E p \in Procs : RaceMkdir(p)
    \/ \E p \in Procs : RaceRest(p)

RaceSpec == RaceInit /\ [][RaceNext]_vars

\* Process p has made its call and has its answer.
Returned(p) == pc[p] = "idle" /\ ret[p].op = "create"

\* C38 as the claim has it: of two vdb_storage_create calls for the same
\* (base_dir, name), made one after the other or interleaved from two
\* processes, at most one returns VDB_OK, the other then returns
\* VDB_ERROR_ALREADY_EXISTS, and the two never both hold a handle on the
\* files.
C38_CreateExclusive ==
    /\ ~(storage[1] # NULL /\ storage[2] # NULL)
    /\ \A p, q \in Procs :
          (p # q /\ Returned(p) /\ Returned(q) /\ ret[p].status = VDB_OK) =>
              ret[q].status = VDB_ERROR_ALREADY_EXISTS

\* C38: of two vdb_storage_create calls for the same (base_dir, name) of
\* which one begins after the other has returned VDB_OK, the later one
\* returns VDB_ERROR_ALREADY_EXISTS, gets no handle and no descriptor, and
\* leaves the directory and its files as they were.
C38_SequentialCreateExclusive ==
    \A p, q \in Procs :
        (p # q /\ Returned(p) /\ ret[p].status = VDB_OK /\ ret[q].after) =>
            /\ pc[q] \in {"stat", "idle"}
            /\ storage[p] # NULL
            /\ fs.collection_meta = MetaText(arg[p].dim, arg[p].metric, 0)
            /\ Returned(q) =>
                  /\ ret[q].status = VDB_ERROR_ALREADY_EXISTS
                  /\ storage[q] = NULL
                  /\ fds[q] = {}

\* The second process called create, with other arguments, after the first
\* had got its handle, and was answered VDB_ERROR_ALREADY_EXISTS.
C38_Witness ==
    /\ Returned(1) /\ ret[1].status = VDB_OK
    /\ Returned(2) /\ ret[2].after
    /\ ret[2].status = VDB_ERROR_ALREADY_EXISTS
    /\ arg[1] # arg[2]

(* ----------------------------------------------------------------------- *)
(* create_directory, call by call                                          *)
(* ----------------------------------------------------------------------- *)
\* The recursion of create_directory as steps: arg.frames are the paths of
\* the calls that have not returned, the innermost last; pc is "enter" when
\* the innermost call is at its first line, "retry" when it has got the
\* status of a recursive call back, "idle" when no call is executing; ret is
\* the status of the call that returned last.
\* A parent that is the whole path: the cut at the last slash is left out.
ParentUncut(path) == path

\* parent: the path up to its last slash, which is there and is not its
\* first char.
Parent(path) == SubSeq(path, 1, strrchr(path, Slash) - 1)

\* The path of the innermost call.
Top == arg.frames[Len(arg.frames)]

StepInit ==
    /\ fs \in DirTrees
    /\ arg = [path |-> << >>, denied |-> {}, frames |-> << >>]
    /\ ret = [op |-> "none", status |-> VDB_OK]
    /\ collection = NULL
    /\ pc = "idle"
    /\ fds = {}
    /\ durable = [embeddings_seg |-> 0, ids_seg |-> 0, metadata_seg |-> 0,
                  wal_log |-> 0]
    /\ storage = NULL
    /\ item = NULL
    /\ acked = << >>
    /\ faulted = FALSE
    /\ pre = Snapshot(EmptyFs, 0)
    /\ crash = NoCrash
    /\ recs = 0
    /\ rec1 = Snapshot(EmptyFs, 0)
    /\ life = "none"
    /\ walDirty = FALSE
    /\ segDirty = FALSE
    /\ calls = [made |-> 0, mishaps |-> 0]
    /\ origin = NULL
    /\ fdlog = NoFds
    /\ vector = [dim |-> 0, data |-> NULL]

StepRest ==
    UNCHANGED << collection, fds, durable, storage, item, acked, faulted, pre,
                 crash, recs, rec1, life, walDirty, segDirty, calls, origin,
                 fdlog, vector >>

\* The innermost call returns status, to its caller or to the program.
StepReturns(status) ==
    /\ ret' = [op |-> "create_directory", status |-> status]
    /\ arg' = [arg EXCEPT !.frames = SubSeq(@, 1, Len(@) - 1)]
    /\ pc' = IF Len(arg.frames) = 1 THEN "idle" ELSE "retry"

\* The program calls create_directory(path).
StepCall ==
    /\ pc = "idle"
    /\ \E path \in DirPaths, denied \in DirDenied :
          arg' = [path |-> path, denied |-> denied, frames |-> << path >>]
    /\ pc' = "enter"
    /\ UNCHANGED << fs, ret >>
    /\ StepRest

\* A call from its first line to its return or to its recursive call: the
\* stat, the mkdir, and the cut of parent at the last slash.
StepEnter ==
    /\ pc = "enter"
    /\ \E m \in {mkdir(fs, Top, arg.denied)} :
          IF stat(fs, Top) = "dir"
          THEN StepReturns(VDB_OK) /\ UNCHANGED fs
          ELSE IF stat(fs, Top) = "file"
          THEN StepReturns(VDB_ERROR_ALREADY_EXISTS) /\ UNCHANGED fs
          ELSE IF m.errno = "0"
          THEN StepReturns(VDB_OK) /\ fs' = m.tree
          ELSE IF m.errno = "ENOENT"
                  /\ strrchr(Top, Slash) # 0 /\ strrchr(Top, Slash) # 1
          THEN /\ arg' = [arg EXCEPT !.frames = Append(@, Parent(Top))]
               /\ UNCHANGED << fs, ret, pc >>
          ELSE StepReturns(VDB_ERROR_IO) /\ UNCHANGED fs
    /\ StepRest

\* A call after its recursive call returned: the status of the parent if it
\* failed, else the second mkdir.
StepRetry ==
    /\ pc = "retry"
    /\ \E r \in {RetryMkdir([status |-> ret.status, tree |-> fs], Top,
                            arg.denied)} :
          /\ fs' = r.tree
          /\ StepReturns(r.status)
    /\ StepRest

StepNext ==
    \/ StepCall
    \/ StepEnter
    \/ StepRetry

StepSpec == StepInit /\ [][StepNext]_vars

\* A call that is executing takes its next step.
StepLive == StepSpec /\ WF_vars(StepEnter) /\ WF_vars(StepRetry)

\* Every call but the outermost is on the path of its caller cut at that
\* path's last slash, which is shorter; and every call that has called
\* itself is on a path with a slash that is not its first char.
FramesShrink ==
    /\ \A k \in 2..Len(arg.frames) :
          /\ arg.frames[k]
                = SubSeq(arg.frames[k - 1], 1,
                         strrchr(arg.frames[k - 1], Slash) - 1)
          /\ Len(arg.frames[k]) < Len(arg.frames[k - 1])
    /\ \A k \in 1..(Len(arg.frames) - 1) :
          strrchr(arg.frames[k], Slash) > 1

\* C39: every recursive call of create_directory is on the caller's path
\* cut at its last slash, a strictly shorter path; a call on a path with no
\* slash but a leading one calls nothing; and every call of create_directory
\* returns.
C39_CreateDirectoryTerminates ==
    /\ []FramesShrink
    /\ [][(pc = "enter" /\ strrchr(Top, Slash) \in {0, 1}) =>
             Len(arg'.frames) < Len(arg.frames)]_vars
    /\ (pc # "idle") ~> (pc = "idle")

\* create_directory("a/b/c") has called itself on "a/b" and that call on
\* "a", nothing of the three being there.
C39_Witness ==
    /\ pc = "enter"
    /\ arg.frames = << << 97, 47, 98, 47, 99 >>, << 97, 47, 98 >>, << 97 >> >>

====
